---- MODULE Spec2Model ----
\* Write path of DBImpl (db_impl_write.cc): group commit through the writer
\* queues, sequence allocation, WAL append, pre-release callbacks, memtable
\* apply and publication of the last sequence, in default, pipelined and
\* unordered mode and on the WAL-only second queue.
EXTENDS Integers, Sequences, FiniteSets, TLC

\* ---------------------------------------------------------------- bounds
NumWriters == 3      \* client threads, each issuing one write call
MaxCount == 2        \* largest record count of a batch
MaxSwitch == 1       \* memtable switches a run may trigger in preprocess
MaxFaults == 1       \* injected WAL I/O failures per run
MaxStalls == 1       \* stall conditions the write controller raises per run
MaxOptionCalls == 2  \* write calls of a run that exercises the write options
NumThreads == 3      \* threads that use one ConcurrentTaskLimiter
MaxLimit == 2        \* largest cap a run sets on the limiter
MaxGets == 3         \* GetToken calls per run
MaxSets == 2         \* changes of the cap per run
MaxSwitchCalls == 2  \* SwitchWAL and HandleWriteBufferFull calls per run
NumCFs == 2          \* column families when there is more than the default
LogEntrySize == 3    \* bytes of one WAL record
max_total_in_memory_state_ == 1  \* bytes reserved for all memtables

Writers == 1..NumWriters
NoWriter == 0
\* Writer::sequence before assignment (kMaxSequenceNumber in the source)
kMaxSequenceNumber == 0

MainQ == "main"
NonMemQ == "nonmem"

\* ---------------------------------------------------------------- options
\* immutable_db_options_ / two_write_queues_ / seq_per_batch_ of one DB
DefaultOptions ==
  [two_write_queues |-> FALSE, enable_pipelined_write |-> FALSE,
   unordered_write |-> FALSE, seq_per_batch |-> FALSE,
   allow_concurrent_memtable_write |-> FALSE, paranoid_checks |-> TRUE,
   recoverable_cb |-> FALSE]

\* seq_per_batch is the write-prepared transaction layer: it is the only
\* producer of latest-persistent-state batches and it registers
\* recoverable_state_pre_release_callback_
WritePrepared ==
  [DefaultOptions EXCEPT !.seq_per_batch = TRUE, !.recoverable_cb = TRUE]

DBConfigs ==
  { DefaultOptions,
    [DefaultOptions EXCEPT !.allow_concurrent_memtable_write = TRUE,
                           !.paranoid_checks = FALSE],
    WritePrepared,
    [DefaultOptions EXCEPT !.two_write_queues = TRUE,
                           !.allow_concurrent_memtable_write = TRUE],
    [WritePrepared EXCEPT !.two_write_queues = TRUE],
    [DefaultOptions EXCEPT !.enable_pipelined_write = TRUE,
                           !.allow_concurrent_memtable_write = TRUE],
    [DefaultOptions EXCEPT !.unordered_write = TRUE,
                           !.allow_concurrent_memtable_write = TRUE],
    [WritePrepared EXCEPT !.unordered_write = TRUE, !.two_write_queues = TRUE,
                          !.allow_concurrent_memtable_write = TRUE],
    [DefaultOptions EXCEPT !.enable_pipelined_write = TRUE,
                           !.two_write_queues = TRUE] }

\* One write call: WriteOptions, the batch and the callbacks handed to WriteImpl
BaseRequest ==
  [disable_wal |-> FALSE, disable_memtable |-> FALSE, count |-> 1,
   batch_cnt |-> 1, cb |-> "none", pre |-> "none", bad_cf |-> FALSE,
   lps |-> FALSE, sync |-> FALSE, no_slowdown |-> FALSE, null_batch |-> FALSE,
   has_merge |-> FALSE, wal_term |-> FALSE]

Requests ==
  { BaseRequest,
    [BaseRequest EXCEPT !.count = MaxCount, !.batch_cnt = MaxCount,
                        !.pre = "ok"],
    [BaseRequest EXCEPT !.disable_wal = TRUE],
    [BaseRequest EXCEPT !.disable_memtable = TRUE],
    [BaseRequest EXCEPT !.disable_memtable = TRUE, !.lps = TRUE],
    [BaseRequest EXCEPT !.cb = "fail"],
    [BaseRequest EXCEPT !.pre = "fail"],
    [BaseRequest EXCEPT !.bad_cf = TRUE] }

\* write calls that exercise WriteOptions::sync and no_slowdown and the
\* argument checks of WriteImpl
OptionRequests ==
  { BaseRequest,
    [BaseRequest EXCEPT !.sync = TRUE, !.pre = "ok"],
    [BaseRequest EXCEPT !.no_slowdown = TRUE],
    [BaseRequest EXCEPT !.disable_memtable = TRUE, !.lps = TRUE,
                        !.sync = TRUE, !.pre = "ok"],
    [BaseRequest EXCEPT !.null_batch = TRUE],
    [BaseRequest EXCEPT !.sync = TRUE, !.disable_wal = TRUE] }

\* write calls whose batch holds a Merge or has a WAL termination point
GroupRequests ==
  { BaseRequest,
    [BaseRequest EXCEPT !.count = MaxCount, !.batch_cnt = MaxCount,
                        !.pre = "ok"],
    [BaseRequest EXCEPT !.has_merge = TRUE],
    [BaseRequest EXCEPT !.has_merge = TRUE, !.cb = "fail"],
    [BaseRequest EXCEPT !.has_merge = TRUE, !.disable_memtable = TRUE],
    [BaseRequest EXCEPT !.wal_term = TRUE],
    [BaseRequest EXCEPT !.disable_memtable = TRUE, !.lps = TRUE] }

NoRequest == [BaseRequest EXCEPT !.count = 0]

VARIABLES
  db,          \* the options the DB was opened with
  pc,          \* position of each client thread inside its write call
  req,         \* the call's arguments
  wstate,      \* Writer::state
  wstatus,     \* Writer::status
  cbfailed,    \* Writer::CallbackFailed()
  sequence,    \* Writer::sequence
  ret,         \* status returned by the write call ("" while running)
  loc,         \* locals of a leader: status, io_s, last_sequence, ...
  group,       \* write_group of a leader: members in insertion order
  gleader,     \* Writer::write_group back reference (leader of its group)
  running,     \* WriteGroup::running of a parallel group, per leader
  queue,       \* writers linked in each WriteThread, oldest first
  last_sequence_,            \* VersionSet::last_sequence_
  last_allocated_sequence_,  \* VersionSet::last_allocated_sequence_
  wal,         \* records appended to the logs, in append order
  mem,         \* memtable: base sequence under which a writer's batch was inserted
  prerel,      \* sequence passed to a writer's pre-release callback
  bg_error,    \* error_handler_: the background error ("OK" when none) and
               \* the reasons SetBGError was called with
  pending_memtable_writes_,  \* unordered writes logged but not yet applied
  cached_recoverable_state_,  \* record count of the cached batch, 0 = empty
  rs_mem,      \* sequences WriteRecoverableState inserted into the memtable
  rs_prerel,   \* sequences passed to recoverable_state_pre_release_callback_
  switches,    \* memtable switches that wrote a recoverable state
  last_published_sequence_,  \* VersionSet::last_published_sequence_
  wt_last_sequence,  \* WriteThread::last_sequence_ (pipelined write)
  memq,        \* writers linked as memtable writers (pipelined write)
  exited,      \* writers in the order they left their queue
  faults,      \* injected I/O failures so far
  fs_error,    \* the status a failing log write or sync reports in this run
  write_controller,  \* write_controller_: "normal", "delayed" or "stopped"
  stalls,      \* stall conditions the background work raised so far
  delay,       \* DelayWrite of each leader: "none", "waiting" or "done"
  log_dir_synced_,  \* log_dir_synced_: the WAL directory was synced once
  getting_synced,   \* the numbers of the logs_ entries with getting_synced
  switch_wait,      \* WaitForPendingWrites of each leader: "none", "locked"
                    \* (holds switch_mutex_), "checked" (saw a positive
                    \* counter), "waiting" (in switch_cv_), "woken", "passed"
  called_stopped,  \* the DB was already stopped when the write call began
  io_failed,   \* the status a WAL append or sync of the group a writer led
               \* failed with ("OK" when none failed)
  cfd,         \* each column family: creation sequence of its active
               \* memtable, its immutable memtables (oldest first, with the
               \* writers and recoverable sequences sealed in them), its log
               \* number and whether a flush of it was requested
  logfile_number_,   \* number of the WAL the writers append to
  alive_log_files_,  \* alive_log_files_: number and getting_flushed
  logs_,             \* logs_: the numbers of the open log writers
  next_file_number_, \* what versions_->NewFileNumber() returns next
  single_column_family_mode_,  \* only the default column family exists
  max_total_wal_size,          \* mutable_db_options_.max_total_wal_size
  sw,          \* what the switches a leader ran did, per leader
  log_empty_,        \* log_empty_: nothing was appended to the current WAL
  total_log_size_,   \* total_log_size_
  tmp_batch_,        \* tmp_batch_: the scratch batch of WriteToWAL
  log_used,          \* Writer::log_used
  log_used_out,      \* what a leader's WAL write stored through log_used
  max_outstanding_tasks_,  \* ConcurrentTaskLimiterImpl: the cap, < 0 unlimited
  outstanding_tasks_,      \* ConcurrentTaskLimiterImpl: tokens handed out
  lt,          \* a limiter thread: position, GetToken's force, limit and
               \* tasks, the token it holds and how it got it
  lh           \* what the limiter went through: its highest cap, whether it
               \* was unlimited, cap changes, calls, whether a token was forced

vars == <<db, pc, req, wstate, wstatus, cbfailed, sequence, ret, loc, group,
          gleader, running, queue, last_sequence_, last_allocated_sequence_,
          wal, mem, prerel, bg_error, pending_memtable_writes_, exited,
          faults, cached_recoverable_state_, rs_mem, rs_prerel, switches,
          last_published_sequence_, wt_last_sequence, memq, fs_error,
          write_controller, stalls, delay, log_dir_synced_, getting_synced, switch_wait,
          called_stopped,
          io_failed, max_outstanding_tasks_, outstanding_tasks_, lt, lh,
          cfd, logfile_number_, alive_log_files_, logs_, next_file_number_,
          single_column_family_mode_, max_total_wal_size, sw, log_empty_,
          total_log_size_, tmp_batch_, log_used, log_used_out>>

\* what a step of WaitForPendingWrites leaves alone
waitVars ==
  <<db, pc, req, wstate, wstatus, cbfailed, sequence, ret, loc, group,
    gleader, running, queue, last_sequence_, last_allocated_sequence_,
    wal, mem, prerel, bg_error, pending_memtable_writes_, exited,
    faults, cached_recoverable_state_, rs_mem, rs_prerel, switches,
    last_published_sequence_, wt_last_sequence, memq, fs_error,
    write_controller, stalls, delay, log_dir_synced_, getting_synced,
    called_stopped,
    io_failed, max_outstanding_tasks_, outstanding_tasks_, lt, lh,
    cfd, logfile_number_, alive_log_files_, logs_, next_file_number_,
    single_column_family_mode_, max_total_wal_size, sw, log_empty_,
    total_log_size_, tmp_batch_, log_used, log_used_out>>

\* the task limiter and its threads
ltVars == <<max_outstanding_tasks_, outstanding_tasks_, lt, lh>>

\* the memtables and WAL files, which only a memtable switch changes
swVars == <<cfd, logfile_number_, alive_log_files_, logs_, next_file_number_,
            single_column_family_mode_, max_total_wal_size, sw>>

\* the accounting of WriteToWAL
laVars == <<log_empty_, total_log_size_, tmp_batch_, log_used, log_used_out>>
\* what a returning follower leaves alone
frVars == <<fs_error, write_controller, stalls, called_stopped, io_failed,
            ltVars, swVars, log_empty_, total_log_size_, tmp_batch_,
            log_used>>

\* what the write calls never change
wcVars == <<fs_error, write_controller, stalls, called_stopped, io_failed,
            ltVars, swVars, laVars>>

\* what only WriteRecoverableState changes
rsVars == <<rs_mem, rs_prerel, switches, last_published_sequence_>>

\* what only PipelinedWriteImpl changes
plVars == <<wt_last_sequence, memq>>

NoLocals ==
  [status |-> "OK", io_s |-> "OK", last_sequence |-> kMaxSequenceNumber,
   seq_inc |-> 0, parallel |-> FALSE, in_parallel_group |-> FALSE,
   need_log_sync |-> FALSE, need_log_dir_sync |-> FALSE]

InitDB ==
  /\ db \in DBConfigs
  /\ pc = [w \in Writers |-> "idle"]
  /\ req = [w \in Writers |-> NoRequest]
  /\ wstate = [w \in Writers |-> "INIT"]
  /\ wstatus = [w \in Writers |-> "OK"]
  /\ cbfailed = [w \in Writers |-> FALSE]
  /\ sequence = [w \in Writers |-> kMaxSequenceNumber]
  /\ ret = [w \in Writers |-> ""]
  /\ loc = [w \in Writers |-> NoLocals]
  /\ group = [w \in Writers |-> <<>>]
  /\ gleader = [w \in Writers |-> NoWriter]
  /\ running = [w \in Writers |-> 0]
  /\ queue = [q \in {MainQ, NonMemQ} |-> <<>>]
  /\ last_sequence_ = 0
  /\ last_allocated_sequence_ = 0
  /\ wal = <<>>
  /\ io_failed = [w \in Writers |-> "OK"]
  /\ mem = [w \in Writers |-> 0]
  /\ prerel = [w \in Writers |-> 0]
  /\ bg_error = [st |-> "OK", reasons |-> {}]
  /\ pending_memtable_writes_ = 0
  /\ exited = <<>>
  /\ faults = 0
  /\ cached_recoverable_state_ = 0
  /\ rs_mem = {}
  /\ rs_prerel = {}
  /\ switches = 0
  /\ last_published_sequence_ = 0
  /\ wt_last_sequence = 0
  /\ memq = <<>>
  /\ write_controller = "normal"
  /\ stalls = 0
  /\ delay = [w \in Writers |-> "none"]
  /\ log_dir_synced_ = FALSE
  /\ getting_synced = {}
  /\ switch_wait = [w \in Writers |-> "none"]
  /\ called_stopped = [w \in Writers |-> FALSE]

ColumnFamilies == 1..NumCFs

\* the DB as opened: one WAL, every column family with an empty memtable
\* created at sequence 0
Opened(single, max_wal) ==
  /\ cfd = [cf \in ColumnFamilies |->
             [creation_seq |-> 0, imm |-> <<>>, log_number |-> 1,
              flush_requested |-> FALSE]]
  /\ logfile_number_ = 1
  /\ alive_log_files_ = <<[number |-> 1, getting_flushed |-> FALSE]>>
  /\ logs_ = <<1>>
  /\ next_file_number_ = 2
  /\ single_column_family_mode_ = single
  /\ max_total_wal_size = max_wal
  /\ sw = [w \in Writers |-> <<>>]
  /\ log_empty_ = TRUE
  /\ total_log_size_ = 0
  /\ tmp_batch_ = <<>>
  /\ log_used = [w \in Writers |-> 0]
  /\ log_used_out = [w \in Writers |-> 0]

\* a file system whose failures are plain I/O errors
\* ConcurrentTaskLimiterImpl(name, max_outstanding_task): the cap as given,
\* no task outstanding, no thread inside GetToken
LimiterConstructed(cap) ==
  /\ max_outstanding_tasks_ = cap
  /\ outstanding_tasks_ = 0
  /\ lt = [t \in 1..NumThreads |->
            [pc |-> "idle", force |-> FALSE, limit |-> 0, tasks |-> 0,
             token |-> "none"]]
  /\ lh = [highest |-> cap, unlimited |-> cap < 0, sets |-> 0,
           gets |-> 0, forced |-> FALSE]

Init ==
  InitDB /\ fs_error = "IOError" /\ LimiterConstructed(0) /\ Opened(TRUE, 0)

\* the file system may also report that this instance was fenced off
OptionsInit ==
  /\ InitDB
  /\ fs_error \in IF db.paranoid_checks THEN {"IOError"}
                  ELSE {"IOError", "IOFenced"}
  /\ LimiterConstructed(0)
  /\ Opened(TRUE, 0)

\* ------------------------------------------------------------- helpers
Range(s) == {s[i] : i \in 1..Len(s)}

Ok(s) == s = "OK"

\* "Otherwise IsLatestPersistentState optimization does not make sense":
\* such a batch is WAL-only, and only the write-prepared layer issues it
ValidRequest(r) == r.lps => (r.disable_memtable /\ db.seq_per_batch)

\* a dispatch that takes the pipelined path whatever enable_pipelined_write
RouteAlwaysPipelined(r) ==
  IF db.two_write_queues /\ r.disable_memtable THEN "walonly" ELSE "pipelined"

\* WriteImpl's dispatch on the options and on disable_memtable
Route(r) ==
  IF db.two_write_queues /\ r.disable_memtable THEN "walonly"
  ELSE IF db.unordered_write THEN "unordered"
  ELSE IF db.enable_pipelined_write THEN "pipelined"
  ELSE "default"

QueueOf(r) == IF Route(r) = "walonly" THEN NonMemQ ELSE MainQ

\* a WriteImpl that checks none of its options
ValidateNone(r) == "OK"

\* the option combinations WriteImpl rejects before it builds a Writer
Validate(r) ==
  IF r.null_batch THEN "Corruption"
  ELSE IF r.sync /\ r.disable_wal THEN "InvalidArgument"
  ELSE IF db.two_write_queues /\ db.enable_pipelined_write THEN "NotSupported"
  ELSE IF db.seq_per_batch /\ db.enable_pipelined_write THEN "NotSupported"
  ELSE IF db.unordered_write /\ db.enable_pipelined_write THEN "NotSupported"
  ELSE "OK"

\* batch_cnt handed to the Writer constructor
BatchCnt(r) ==
  LET bc == IF db.seq_per_batch THEN r.batch_cnt ELSE 0
  IN IF Route(r) = "unordered" /\ bc = 0 THEN r.count
     ELSE IF Route(r) = "pipelined" THEN 0
     ELSE bc

\* every mode dropping the pre-release callback
PreReleaseDropped(r) == "none"

\* the pre-release callback the Writer carries (PipelinedWriteImpl passes none)
PreReleaseCallbackOf(r) == IF Route(r) = "pipelined" THEN "none" ELSE r.pre

ShouldWriteToMemtable(w) ==
  Ok(wstatus[w]) /\ ~cbfailed[w] /\ ~req[w].disable_memtable

\* Writer::CheckCallback: runs the pre-commit callback, TRUE when it passed
CheckCallback(w) == req[w].cb # "fail"

FinalStatus(w) ==
  IF ~Ok(wstatus[w]) THEN wstatus[w]
  ELSE IF cbfailed[w] THEN "Busy"
  ELSE "OK"

FirstPc(r) ==
  CASE Route(r) = "default" -> "enter"
    [] Route(r) = "walonly" -> "wo_enter"
    [] Route(r) = "unordered" -> "wo_enter"
    [] OTHER -> "pl_enter"

RECURSIVE SumOver(_, _)
SumOver(f, S) ==
  IF S = {} THEN 0
  ELSE LET x == CHOOSE y \in S : TRUE IN f[x] + SumOver(f, S \ {x})

\* error_handler_.IsDBStopped()
IsStopped == ~Ok(bg_error.st)

\* error_handler_.GetBGError()
GetBGError == bg_error.st

\* ErrorHandler::SetBGError(s, reason): the first recorded error stops the DB
SetBGError(cur, s, reason) ==
  [st |-> IF Ok(cur.st) THEN s ELSE cur.st,
   reasons |-> cur.reasons \cup {reason}]

\* Status::IsIncomplete: Incomplete("Write stall") is an Incomplete status
IsIncomplete(s) == s \in {"Incomplete", "Incomplete: Write stall"}

\* IOStatusCheck
IOStatusCheck(cur, io_s) ==
  IF (db.paranoid_checks /\ ~Ok(io_s) /\ io_s # "Busy" /\ ~IsIncomplete(io_s))
     \/ io_s = "IOFenced"
  THEN SetBGError(cur, io_s, "WriteCallback") ELSE cur

\* WriteStatusCheck
WriteStatusCheck(cur, s) ==
  IF db.paranoid_checks /\ ~Ok(s) /\ s # "Busy" /\ ~IsIncomplete(s)
  THEN SetBGError(cur, s, "WriteCallback") ELSE cur

\* MemTableInsertStatusCheck
MemTableInsertStatusCheck(cur, s) ==
  IF ~Ok(s) THEN SetBGError(cur, s, "MemTable") ELSE cur

\* ------------------------------------------------------ writer queue
\* WriteThread::EnterAsBatchGroupLeader: the leader and the consecutive
\* followers behind it that share its WAL policy (byte sizes are not modelled)
RECURSIVE GroupPrefix(_, _, _)
GroupPrefix(q, i, leader) ==
  IF i > Len(q) THEN <<>>
  ELSE IF req[q[i]].disable_wal # req[leader].disable_wal THEN <<>>
  ELSE <<q[i]>> \o GroupPrefix(q, i + 1, leader)

EnterAsBatchGroupLeader(q, leader) == <<leader>> \o GroupPrefix(queue[q], 2, leader)

\* the queue after the group left it
QueueAfterExit(q, g) == SubSeq(queue[q], Len(g) + 1, Len(queue[q]))

NextLeader(q, g) ==
  IF Len(queue[q]) > Len(g) THEN queue[q][Len(g) + 1] ELSE NoWriter

\* WriteThread::ExitAsBatchGroupLeader: every member COMPLETED with its final
\* status, the head advances past the group and the next writer leads;
\* lst is the status the leader's Writer keeps
ExitAsBatchGroupLeader(q, leader, g, status, lst) ==
  LET nl == NextLeader(q, g) IN
  /\ queue' = [queue EXCEPT ![q] = QueueAfterExit(q, g)]
  /\ wstate' = [x \in Writers |->
                  IF x \in Range(g) THEN "COMPLETED"
                  ELSE IF x = nl THEN "GROUP_LEADER" ELSE wstate[x]]
  /\ wstatus' = [x \in Writers |->
                  IF x = leader THEN lst
                  ELSE IF x \in Range(g) THEN status ELSE wstatus[x]]
  /\ gleader' = [x \in Writers |-> IF x \in Range(g) THEN NoWriter ELSE gleader[x]]
  /\ group' = [group EXCEPT ![leader] = <<>>]
  /\ exited' = exited \o g

\* positions after a group exit: the acting thread moves to p, the next
\* leader leaves JoinBatchGroup as STATE_GROUP_LEADER
PcAfterExit(w, p, q, g) ==
  LET nl == NextLeader(q, g) IN
  [x \in Writers |->
     IF x = w THEN p
     ELSE IF x = nl THEN FirstPc(req[nl]) ELSE pc[x]]

\* --------------------------------------------------------- WriteImpl
\* an entry that goes on as the leader whatever state JoinBatchGroup left the
\* writer in
WriteImpl_JoinAsLeader(w, r) ==
  /\ pc[w] = "idle"
  /\ ValidRequest(r)
  /\ IF w = 1 THEN TRUE ELSE pc[w - 1] # "idle"
  /\ req' = [req EXCEPT ![w] = r]
  /\ called_stopped' = [called_stopped EXCEPT ![w] = IsStopped]
  /\ IF ~Ok(Validate(r))
     THEN /\ pc' = [pc EXCEPT ![w] = "done"]
          /\ ret' = [ret EXCEPT ![w] = Validate(r)]
          /\ UNCHANGED <<queue, wstate>>
     ELSE /\ queue' = [queue EXCEPT ![QueueOf(r)] = Append(@, w)]
          /\ wstate' = [wstate EXCEPT ![w] = "GROUP_LEADER"]
          /\ pc' = [pc EXCEPT ![w] = FirstPc(r)]
          /\ UNCHANGED ret
  /\ UNCHANGED <<ltVars, swVars, laVars, io_failed, fs_error, write_controller, stalls, delay, log_dir_synced_, getting_synced, switch_wait, db, wstatus, cbfailed, sequence, loc, group, gleader, running,
                 last_sequence_, last_allocated_sequence_, wal, mem, prerel,
                 bg_error, exited, faults,
                 pending_memtable_writes_, rsVars, plVars,
                 cached_recoverable_state_>>

\* entry of WriteImpl up to JoinBatchGroup
WriteImpl_Join(w, r) ==
  /\ pc[w] = "idle"
  /\ ValidRequest(r)
  /\ IF w = 1 THEN TRUE ELSE pc[w - 1] # "idle"
  /\ req' = [req EXCEPT ![w] = r]
  /\ called_stopped' = [called_stopped EXCEPT ![w] = IsStopped]
  /\ IF ~Ok(Validate(r))
     THEN /\ pc' = [pc EXCEPT ![w] = "done"]
          /\ ret' = [ret EXCEPT ![w] = Validate(r)]
          /\ UNCHANGED <<queue, wstate>>
     ELSE /\ queue' = [queue EXCEPT ![QueueOf(r)] = Append(@, w)]
          /\ IF queue[QueueOf(r)] = <<>>
             THEN /\ wstate' = [wstate EXCEPT ![w] = "GROUP_LEADER"]
                  /\ pc' = [pc EXCEPT ![w] = FirstPc(r)]
             ELSE /\ wstate' = [wstate EXCEPT ![w] = "LOCKED_WAITING"]
                  /\ pc' = [pc EXCEPT ![w] = "wait"]
          /\ UNCHANGED ret
  /\ UNCHANGED <<ltVars, swVars, laVars, io_failed, fs_error, write_controller, stalls, delay, log_dir_synced_, getting_synced, switch_wait, db, wstatus, cbfailed, sequence, loc, group, gleader, running,
                 last_sequence_, last_allocated_sequence_, wal, mem, prerel,
                 bg_error, exited, faults,
                 pending_memtable_writes_, rsVars, plVars,
                 cached_recoverable_state_>>

\* the leaders that run PreprocessWrite: every leader of the main queue
Preprocesses(w) ==
  /\ pc[w] \in {"enter", "wo_enter", "pl_enter"}
  /\ QueueOf(req[w]) = MainQ

\* the holders of switch_mutex_ among the leaders in WaitForPendingWrites
switch_mutex_ == {w \in Writers : switch_wait[w] \in {"locked", "checked"}}

\* the leaders blocked in switch_cv_.wait
switch_cv_ == {w \in Writers : switch_wait[w] = "waiting"}

\* leader w is inside WaitForPendingWrites
Parked(w) == switch_wait[w] \in {"locked", "checked", "waiting", "woken"}

\* a threshold that ignores the configured max_total_wal_size
MaxTotalWalSizeUnset == 4 * max_total_in_memory_state_

\* GetMaxTotalWalSize
GetMaxTotalWalSize ==
  IF max_total_wal_size = 0 THEN 4 * max_total_in_memory_state_
  ELSE max_total_wal_size

\* a switch this leader ran in its PreprocessWrite returned an error
SwitchFailed(w) == \E i \in 1..Len(sw[w]) : ~Ok(sw[w][i].status)

\* the status that switch returned
SwitchStatus(w) ==
  sw[w][CHOOSE i \in 1..Len(sw[w]) : ~Ok(sw[w][i].status)].status

\* PreprocessWrite is about to call SwitchWAL and SwitchWAL will not return
\* at once: "status.ok() && !single_column_family_mode_ && total_log_size_ >
\* GetMaxTotalWalSize()" and the oldest alive log is not getting flushed
SwitchWALDue(w) ==
  /\ Preprocesses(w)
  /\ delay[w] = "none"
  /\ sw[w] = <<>>
  /\ ~IsStopped
  /\ ~single_column_family_mode_
  /\ total_log_size_ > GetMaxTotalWalSize
  /\ ~alive_log_files_[1].getting_flushed

\* need_log_sync once PreprocessWrite returned st: the leader's sync option,
\* cleared when the preprocessing failed
NeedLogSync(w, st) == req[w].sync /\ ~req[w].disable_wal /\ Ok(st)

\* write_controller_.IsStopped() || write_controller_.NeedsDelay()
NeedsDelay == write_controller # "normal"

\* a leader blocked in DelayWrite keeps the stall barrier of write_thread_ up
Stalled == \E x \in Writers : delay[x] = "waiting"

\* a DelayWrite whose wait never ends
DelayWriteBlocks(w) ==
  IF delay[w] = "waiting" THEN FALSE
  ELSE IsStopped \/ SwitchFailed(w) \/ ~NeedsDelay \/ req[w].no_slowdown

\* DelayWrite returns at once when the leader must not be slowed down and
\* blocks otherwise: the sleep ends when the delay is over, the wait on bg_cv_
\* when the controller is no longer stopped or a background error is set
DelayWriteReturns(w) ==
  IF delay[w] = "waiting" THEN IsStopped \/ write_controller # "stopped"
  ELSE IsStopped \/ SwitchFailed(w) \/ ~NeedsDelay \/ req[w].no_slowdown

\* a DelayWrite that lets a no_slowdown leader through the stall
DelayWriteBlind(w) == IF IsStopped THEN GetBGError ELSE "OK"

\* DelayWrite
DelayWrite(w) ==
  IF delay[w] = "none" /\ NeedsDelay THEN "Incomplete: Write stall"
  ELSE IF IsStopped THEN GetBGError
  ELSE "OK"

\* PreprocessWrite as far as the write outcome depends on it: the stored
\* background error, else the error of a switch, else what DelayWrite returns
PreprocessWrite(w) ==
  IF IsStopped THEN GetBGError
  ELSE IF SwitchFailed(w) THEN SwitchStatus(w)
  ELSE DelayWrite(w)

\* DelayWrite's "delayed": the leader slept or waited
DelayAfter(w) == [delay EXCEPT ![w] = IF @ = "waiting" THEN "done" ELSE @]

\* total_count and valid_batches of the group, from the callbacks' results
TotalCount(g, failed) ==
  SumOver([x \in Writers |-> req[x].count],
          {x \in Range(g) : ~failed[x] /\ ~req[x].disable_memtable})

ValidBatches(g, failed) ==
  SumOver([x \in Writers |-> BatchCnt(req[x])], {x \in Range(g) : ~failed[x]})

SeqInc(g, failed) ==
  IF db.seq_per_batch THEN ValidBatches(g, failed) ELSE TotalCount(g, failed)

\* a leader that launches parallel writers whatever the batches hold
ParallelDespiteMerge(g, failed) ==
  db.allow_concurrent_memtable_write /\ Len(g) > 1

\* "parallel": allow_concurrent_memtable_write, more than one writer, and no
\* Merge in a batch that passed its callback and goes to the memtable
Parallel(g, failed) ==
  /\ db.allow_concurrent_memtable_write
  /\ Len(g) > 1
  /\ \A x \in Range(g) :
       (~failed[x] /\ Ok(wstatus[x]) /\ ~req[x].disable_memtable)
         => ~req[x].has_merge

\* the wait of PreprocessWrite on log_sync_cv_:
\* "while (logs_.front().getting_synced) log_sync_cv_.Wait()"
LogSyncWaits(w, st) == NeedLogSync(w, st) /\ logs_[1] \in getting_synced

\* a PreprocessWrite that marks the logs whatever its status
GettingSyncedAnyStatus(w, st) ==
  IF req[w].sync /\ ~req[w].disable_wal THEN getting_synced \cup Range(logs_)
  ELSE getting_synced

\* the end of PreprocessWrite: "for (auto& log : logs_) log.getting_synced =
\* true" under "status.ok() && *need_log_sync"
GettingSynced(w, st) ==
  IF NeedLogSync(w, st) THEN getting_synced \cup Range(logs_)
  ELSE getting_synced

\* WriteImpl, leader: PreprocessWrite under mutex_, EnterAsBatchGroupLeader
\* and the loop over the group that runs the pre-commit callbacks
Leader_Enter(w) ==
  /\ pc[w] = "enter"
  /\ ~SwitchWALDue(w)
  /\ DelayWriteReturns(w)
  /\ delay' = DelayAfter(w)
  /\ LET st == PreprocessWrite(w)
         g == EnterAsBatchGroupLeader(MainQ, w)
         failed == [x \in Writers |->
                      IF x \in Range(g) /\ Ok(st)
                      THEN ~CheckCallback(x) ELSE cbfailed[x]]
     IN /\ ~LogSyncWaits(w, st)
        /\ getting_synced' = GettingSynced(w, st)
        /\ UNCHANGED switch_wait
        /\ group' = [group EXCEPT ![w] = g]
        /\ gleader' = [x \in Writers |-> IF x \in Range(g) THEN w ELSE gleader[x]]
        /\ cbfailed' = failed
        /\ loc' = [loc EXCEPT ![w] =
             [NoLocals EXCEPT
                !.status = st,
                !.last_sequence = IF ~db.two_write_queues THEN last_sequence_
                                  ELSE kMaxSequenceNumber,
                !.seq_inc = IF Ok(st) THEN SeqInc(g, failed) ELSE 0,
                !.parallel = Ok(st) /\ Parallel(g, failed),
                !.need_log_sync = NeedLogSync(w, st),
                !.need_log_dir_sync = NeedLogSync(w, st) /\ ~log_dir_synced_]]
        /\ pc' = [pc EXCEPT ![w] = IF Ok(st) THEN "wal" ELSE "finish"]
  /\ UNCHANGED <<wcVars, log_dir_synced_, db, req, wstate, wstatus, sequence, ret, running, queue,
                 last_sequence_, last_allocated_sequence_, wal, mem, prerel,
                 bg_error, exited, faults,
                 pending_memtable_writes_, rsVars, plVars,
                 cached_recoverable_state_>>

\* a merge that skips the CallbackFailed test
MergeBatchAll(g) == g

\* MergeBatch: the writers whose batch goes into the appended record
MergeBatch(g) == SelectSeq(g, LAMBDA x : ~cbfailed[x])

\* MergeBatch returns the leader's own batch: "write_group.size == 1 &&
\* !leader->CallbackFailed() && GetWalTerminationPoint().is_cleared()"
UsesLeaderBatch(g) ==
  Len(g) = 1 /\ ~cbfailed[g[1]] /\ ~req[g[1]].wal_term

\* the scratch batch MergeBatch is handed: the member tmp_batch_ by
\* WriteToWAL, a fresh local by ConcurrentWriteToWAL
TmpBatch(concurrent) == IF concurrent THEN <<>> ELSE tmp_batch_

\* the WAL write of this group goes through ConcurrentWriteToWAL
Concurrent(g) ==
  db.two_write_queues \/ Route(req[g[1]]) \in {"walonly", "unordered"}

\* the record WriteToWAL hands to log_writer->AddRecord: the merged batch
\* (the leader's own or the scratch batch the writers were appended to), the
\* sequence stamped on it and the sequences its group consumes
WalRecord(g, seq, inc) ==
  [seq |-> seq, inc |-> inc, members |-> MergeBatch(g), synced |-> FALSE,
   leader |-> g[1], log |-> logfile_number_,
   merged |-> IF UsesLeaderBatch(g) THEN "batch" ELSE "tmp_batch",
   contents |-> IF UsesLeaderBatch(g) THEN <<g[1]>>
                ELSE TmpBatch(Concurrent(g)) \o MergeBatch(g),
   write_with_wal |-> IF UsesLeaderBatch(g) THEN 1 ELSE Len(MergeBatch(g))]

\* log.writer->file()->Sync() over logs_: every appended record is on disk
SyncedLogs(log) == [i \in 1..Len(log) |-> [log[i] EXCEPT !.synced = TRUE]]

\* to_be_cached_state of MergeBatch: the last latest-persistent-state batch
ToBeCached(g) ==
  LET L == {i \in 1..Len(g) : ~cbfailed[g[i]] /\ req[g[i]].lps}
  IN IF L = {} THEN 0
     ELSE req[g[CHOOSE i \in L : \A j \in L : j <= i]].count

\* cached_recoverable_state_ after WriteToWAL / ConcurrentWriteToWAL
CachedAfter(g, withWal) ==
  IF withWal /\ ToBeCached(g) > 0 THEN ToBeCached(g)
  ELSE cached_recoverable_state_

\* the steps of a WAL write that do I/O: AddRecord, then Sync of the log
\* files and Fsync of the WAL directory when the leader asked for them
IoSteps(withWal, sync, dir_sync) ==
  (IF withWal THEN {"append"} ELSE {})
    \cup (IF withWal /\ sync THEN {"sync"} ELSE {})
    \cup (IF withWal /\ sync /\ dir_sync THEN {"dir"} ELSE {})

\* the step the file system fails in this call ("none": every step succeeds)
IoFaults(steps) == IF faults < MaxFaults THEN {"none"} \cup steps ELSE {"none"}

IoStatusOf(fail) == IF fail = "none" THEN "OK" ELSE fs_error

\* WriteToWAL(write_group, ...): AddRecord, and the sync when it succeeded
LogAfter(rec, withWal, sync, fail) ==
  IF ~withWal \/ fail = "append" THEN wal
  ELSE IF sync /\ fail # "sync" THEN SyncedLogs(Append(wal, rec))
  ELSE Append(wal, rec)

\* a WriteToWAL that leaves the empty-log flag alone
WalAccountingKeepsEmpty(withWal) ==
  /\ total_log_size_' = IF withWal THEN total_log_size_ + LogEntrySize
                         ELSE total_log_size_
  /\ log_empty_' = log_empty_

\* WriteToWAL(merged_batch, ...): "total_log_size_ += log_entry.size()" and
\* "log_empty_ = false", whatever AddRecord returned
WalAccounting(withWal) ==
  /\ total_log_size_' = IF withWal THEN total_log_size_ + LogEntrySize
                         ELSE total_log_size_
  /\ log_empty_' = (log_empty_ /\ ~withWal)

\* a WriteToWAL that leaves the merged writers in the scratch batch
TmpBatchKept(g) ==
  IF UsesLeaderBatch(g) \/ Concurrent(g) THEN tmp_batch_
  ELSE tmp_batch_ \o MergeBatch(g)

\* "if (merged_batch == &tmp_batch_) tmp_batch_.Clear()"
TmpBatchAfter(g) ==
  IF UsesLeaderBatch(g) \/ Concurrent(g) THEN tmp_batch_ ELSE <<>>

\* a WriteToWAL that stamps the log number on every writer of the group
LogUsedAll(g) ==
  [x \in Writers |-> IF x \in Range(g) THEN logfile_number_ ELSE log_used[x]]

\* Writer::log_used after WriteToWAL / ConcurrentWriteToWAL: set on the
\* leader when its own batch is written, on every writer of the group when
\* more than one batch was merged, and on nobody otherwise
LogUsed(g) ==
  [x \in Writers |->
     IF UsesLeaderBatch(g)
     THEN (IF x = g[1] THEN logfile_number_ ELSE log_used[x])
     ELSE IF Len(MergeBatch(g)) > 1 /\ x \in Range(g) THEN logfile_number_
     ELSE log_used[x]]

\* the rest of WriteToWAL(write_group, ...): log_used of the writers,
\* "*log_used = logfile_number_" for the caller and the scratch batch
WalBookkeeping(g, withWal) ==
  IF withWal
  THEN /\ log_used' = LogUsed(g)
       /\ log_used_out' = [log_used_out EXCEPT ![g[1]] = logfile_number_]
       /\ tmp_batch_' = TmpBatchAfter(g)
  ELSE UNCHANGED <<log_used, log_used_out, tmp_batch_>>

\* reading the published sequence where the reservation counter is meant
StaleLastSequence == last_sequence_

\* the value versions_->FetchAddLastAllocatedSequence returns
FetchAddLastAllocatedSequence == last_allocated_sequence_

\* WriteImpl, leader: the WAL phase
Leader_WriteWAL(w) ==
  /\ pc[w] = "wal"
  /\ LET g == group[w]
         withWal == ~req[w].disable_wal
         \* ConcurrentWriteToWAL only appends
         sync == loc[w].need_log_sync /\ ~db.two_write_queues
         base == IF db.two_write_queues THEN FetchAddLastAllocatedSequence
                 ELSE loc[w].last_sequence
     IN \E fail \in IoFaults(IoSteps(withWal, sync, loc[w].need_log_dir_sync)) :
       LET io_s == IoStatusOf(fail)
       IN /\ io_failed' = IF fail = "none" THEN io_failed
                          ELSE [io_failed EXCEPT ![w] = IoStatusOf(fail)]
          /\ faults' = IF fail = "none" THEN faults ELSE faults + 1
          /\ wal' = LogAfter(WalRecord(g, base + 1, loc[w].seq_inc),
                             withWal, sync, fail)
          /\ WalAccounting(withWal)
          /\ WalBookkeeping(g, withWal)
          /\ cached_recoverable_state_' = CachedAfter(g, withWal)
          /\ last_allocated_sequence_' =
               IF db.two_write_queues
               THEN last_allocated_sequence_ + loc[w].seq_inc
               ELSE last_allocated_sequence_
          /\ loc' = [loc EXCEPT ![w].io_s = io_s, ![w].status = io_s,
                                ![w].last_sequence = base + loc[w].seq_inc]
          /\ pc' = [pc EXCEPT ![w] = "prerelease"]
  /\ UNCHANGED <<ltVars, swVars, fs_error, write_controller, stalls, called_stopped, delay, log_dir_synced_, getting_synced, switch_wait, db, req, wstate, wstatus, cbfailed, sequence, ret, group,
                 gleader, running, queue, last_sequence_, mem, prerel,
                 bg_error, exited,
                 pending_memtable_writes_, rsVars, plVars>>

\* a loop that never advances next_sequence
SeqAdvanceNone(x) == 0

\* a loop that advances next_sequence by one per writer, whatever its count
SeqAdvanceOne(x) == IF ShouldWriteToMemtable(x) THEN 1 ELSE 0

\* how far one writer moves next_sequence
SeqAdvance(x) ==
  IF db.seq_per_batch THEN BatchCnt(req[x])
  ELSE IF ShouldWriteToMemtable(x) THEN req[x].count ELSE 0

\* the loop that assigns writer->sequence and calls the pre-release callbacks;
\* acc = [seq, called, status]
RECURSIVE PreReleaseLoop(_, _, _, _)
PreReleaseLoop(g, i, next, acc) ==
  IF i > Len(g) THEN acc
  ELSE LET x == g[i] IN
    IF cbfailed[x] THEN PreReleaseLoop(g, i + 1, next, acc)
    ELSE LET a1 == [acc EXCEPT !.seq[x] = next] IN
      IF PreReleaseCallbackOf(req[x]) = "none"
      THEN PreReleaseLoop(g, i + 1, next + SeqAdvance(x), a1)
      ELSE LET a2 == [a1 EXCEPT !.called[x] = next] IN
        IF PreReleaseCallbackOf(req[x]) = "fail"
        THEN [a2 EXCEPT !.status = "Busy"]
        ELSE PreReleaseLoop(g, i + 1, next + SeqAdvance(x), a2)

\* WriteImpl, leader: "PreReleaseCallback is called after WAL write and
\* before memtable write"
Leader_PreRelease(w) ==
  /\ pc[w] = "prerelease"
  /\ LET current_sequence == loc[w].last_sequence - loc[w].seq_inc + 1
         r == PreReleaseLoop(group[w], 1, current_sequence,
                [seq |-> sequence, called |-> prerel, status |-> "OK"])
     IN IF Ok(loc[w].status)
        THEN /\ sequence' = r.seq
             /\ prerel' = r.called
             /\ loc' = [loc EXCEPT ![w].status = r.status]
             /\ pc' = [pc EXCEPT ![w] = IF Ok(r.status) THEN "apply" ELSE "finish"]
        ELSE /\ pc' = [pc EXCEPT ![w] = "finish"]
             /\ UNCHANGED <<sequence, prerel, loc>>
  /\ UNCHANGED <<wcVars, delay, log_dir_synced_, getting_synced, switch_wait, db, req, wstate, wstatus, cbfailed, ret, group, gleader,
                 running, queue, last_sequence_, last_allocated_sequence_, wal,
                 mem, bg_error, exited, faults,
                 pending_memtable_writes_, rsVars, plVars,
                 cached_recoverable_state_>>

\* ---------------------------------------------------- memtable apply
\* WriteBatchInternal::InsertInto of one batch: fails on a missing column family
InsertStatus(x) == IF req[x].bad_cf THEN "InvalidArgument" ELSE "OK"

\* WriteBatchInternal::InsertInto(write_group, ...): the writers are applied in
\* group order and the first failure ends the loop; acc = [mem, status]
RECURSIVE InsertGroup(_, _, _)
InsertGroup(g, i, acc) ==
  IF i > Len(g) THEN acc
  ELSE LET x == g[i] IN
    IF ~ShouldWriteToMemtable(x) THEN InsertGroup(g, i + 1, acc)
    ELSE IF ~Ok(InsertStatus(x)) THEN [acc EXCEPT !.status = InsertStatus(x)]
    ELSE InsertGroup(g, i + 1, [acc EXCEPT !.mem[x] = sequence[x]])

\* WriteImpl, leader, !parallel: w.status = InsertInto(write_group, ...)
Leader_SerialApply(w) ==
  /\ pc[w] = "apply"
  /\ ~loc[w].parallel
  /\ LET r == InsertGroup(group[w], 1, [mem |-> mem, status |-> "OK"])
     IN /\ mem' = r.mem
        /\ wstatus' = [wstatus EXCEPT ![w] = r.status]
  /\ pc' = [pc EXCEPT ![w] = "finish"]
  /\ UNCHANGED <<wcVars, delay, log_dir_synced_, getting_synced, switch_wait, db, req, wstate, cbfailed, sequence, ret, loc, group, gleader,
                 running, queue, last_sequence_, last_allocated_sequence_, wal,
                 prerel, bg_error, exited, faults,
                 pending_memtable_writes_, rsVars, plVars,
                 cached_recoverable_state_>>

\* WriteImpl, leader, parallel: LaunchParallelMemTableWriters
Leader_LaunchParallel(w) ==
  /\ pc[w] = "apply"
  /\ loc[w].parallel
  /\ running' = [running EXCEPT ![w] = Len(group[w])]
  /\ wstate' = [x \in Writers |->
                 IF x \in Range(group[w]) /\ x # w
                 THEN "PARALLEL_MEMTABLE_WRITER" ELSE wstate[x]]
  /\ loc' = [loc EXCEPT ![w].in_parallel_group = TRUE]
  /\ pc' = [pc EXCEPT ![w] = "papply"]
  /\ UNCHANGED <<wcVars, delay, log_dir_synced_, getting_synced, switch_wait, db, req, wstatus, cbfailed, sequence, ret, group, gleader,
                 queue, last_sequence_, last_allocated_sequence_, wal, mem,
                 prerel, bg_error, exited, faults,
                 pending_memtable_writes_, rsVars, plVars,
                 cached_recoverable_state_>>

\* InsertInto(&w, w.sequence, ...) of one member of a parallel group
InsertOwn(w) ==
  IF ShouldWriteToMemtable(w)
  THEN /\ wstatus' = [wstatus EXCEPT ![w] = InsertStatus(w)]
       /\ mem' = IF Ok(InsertStatus(w)) THEN [mem EXCEPT ![w] = sequence[w]]
                 ELSE mem
  ELSE UNCHANGED <<wstatus, mem>>

Leader_ParallelApply(w) ==
  /\ pc[w] = "papply"
  /\ InsertOwn(w)
  /\ pc' = [pc EXCEPT ![w] = "finish"]
  /\ UNCHANGED <<wcVars, delay, log_dir_synced_, getting_synced, switch_wait, db, req, wstate, cbfailed, sequence, ret, loc, group, gleader,
                 running, queue, last_sequence_, last_allocated_sequence_, wal,
                 prerel, bg_error, exited, faults,
                 pending_memtable_writes_, rsVars, plVars,
                 cached_recoverable_state_>>

\* WriteImpl, follower woken as STATE_PARALLEL_MEMTABLE_WRITER
Follower_ParallelApply(w) ==
  /\ pc[w] = "wait"
  /\ wstate[w] = "PARALLEL_MEMTABLE_WRITER"
  /\ Route(req[w]) = "default"
  /\ InsertOwn(w)
  /\ pc' = [pc EXCEPT ![w] = "fcomplete"]
  /\ UNCHANGED <<wcVars, delay, log_dir_synced_, getting_synced, switch_wait, db, req, wstate, cbfailed, sequence, ret, loc, group, gleader,
                 running, queue, last_sequence_, last_allocated_sequence_, wal,
                 prerel, bg_error, exited, faults,
                 pending_memtable_writes_, rsVars, plVars,
                 cached_recoverable_state_>>

\* status of the parallel group as CompleteParallelMemTableWriter collects it:
\* a member's failed insert is the group's status
GroupStatus(g) ==
  IF \E x \in Range(g) : ~Ok(wstatus[x])
  THEN wstatus[CHOOSE x \in Range(g) : ~Ok(wstatus[x])]
  ELSE "OK"

\* WriteImpl, follower: CompleteParallelMemTableWriter and, for the last one,
\* SetLastSequence, MemTableInsertStatusCheck, ExitAsBatchGroupFollower
Follower_Complete(w) ==
  /\ pc[w] = "fcomplete"
  /\ LET l == gleader[w]
         g == group[l]
     IN /\ running' = [running EXCEPT ![l] = @ - 1]
        /\ IF running[l] > 1
           THEN /\ pc' = [pc EXCEPT ![w] = "await"]
                /\ UNCHANGED <<last_sequence_, bg_error, queue, wstate, wstatus,
                               gleader, group, exited>>
           ELSE /\ last_sequence_' = loc[l].last_sequence
                /\ bg_error' = MemTableInsertStatusCheck(bg_error, GroupStatus(g))
                /\ ExitAsBatchGroupLeader(MainQ, l, g, GroupStatus(g), wstatus[l])
                /\ pc' = PcAfterExit(w, "await", MainQ, g)
  /\ UNCHANGED <<wcVars, delay, log_dir_synced_, getting_synced, switch_wait, db, req, cbfailed, sequence, ret, loc,
                 last_allocated_sequence_, wal, mem, prerel, faults,
                 pending_memtable_writes_, rsVars, plVars,
                 cached_recoverable_state_>>

\* the sequence the exiting leader publishes
LeaderPublished(w) == loc[w].last_sequence

\* SyncWAL() / FlushWAL(true): syncs every log file unless the I/O fails
SyncWAL(log, fail) == IF fail = "none" THEN SyncedLogs(log) ELSE log

\* the leader syncs late: with two queues, after the memtable phase
LateSync(w) == loc[w].need_log_sync /\ db.two_write_queues

\* status handed to ExitAsBatchGroupLeader by the leader: the local status
\* after the need_log_sync block, where "status = SyncWAL()" replaces it
LeaderExitStatus(w, fail) ==
  IF LateSync(w) THEN IoStatusOf(fail) ELSE loc[w].status

\* MarkLogsSynced and MarkLogsNotSynced: the logs up to up_to are no longer
\* getting synced
MarkLogsNotSynced(up_to) == {n \in getting_synced : n > up_to}

\* a need_log_sync block that runs only after a successful write
NeedLogSyncBlockOnSuccess(w) ==
  IF loc[w].need_log_sync /\ Ok(loc[w].status)
  THEN MarkLogsNotSynced(logfile_number_)
  ELSE getting_synced

\* "if (need_log_sync) { if (status.ok()) MarkLogsSynced(logfile_number_, ..)
\* else MarkLogsNotSynced(logfile_number_) }"
NeedLogSyncBlock(w) ==
  IF loc[w].need_log_sync THEN MarkLogsNotSynced(logfile_number_)
  ELSE getting_synced

\* MarkLogsSynced(logfile_number_, need_log_dir_sync)
MarkLogsSynced(w) ==
  IF loc[w].need_log_sync /\ Ok(loc[w].status) /\ loc[w].need_log_dir_sync
  THEN TRUE ELSE log_dir_synced_

\* WriteImpl, leader: status checks, the need_log_sync block,
\* CompleteParallelMemTableWriter and, when this thread exits the group,
\* SetLastSequence and ExitAsBatchGroupLeader
Leader_Finish(w) ==
  /\ pc[w] = "finish"
  /\ \E fail \in IoFaults(IF LateSync(w) THEN {"sync"} ELSE {}) :
     LET g == group[w]
         st == LeaderExitStatus(w, fail)
         bg1 == IF cbfailed[w] THEN bg_error
                ELSE IF ~Ok(loc[w].io_s) THEN IOStatusCheck(bg_error, loc[w].io_s)
                ELSE WriteStatusCheck(bg_error, loc[w].status)
         last == ~loc[w].in_parallel_group \/ running[w] = 1
         \* the last parallel writer takes over the group's status
         wst == IF loc[w].in_parallel_group THEN GroupStatus(g) ELSE wstatus[w]
         exitst == IF Ok(st) /\ loc[w].in_parallel_group
                   THEN GroupStatus(g) ELSE st
     IN /\ io_failed' = IF fail = "none" THEN io_failed
                        ELSE [io_failed EXCEPT ![w] = IoStatusOf(fail)]
        /\ faults' = IF fail = "none" THEN faults ELSE faults + 1
        /\ wal' = IF LateSync(w) THEN SyncWAL(wal, fail) ELSE wal
        /\ log_dir_synced_' = MarkLogsSynced(w)
        /\ getting_synced' = NeedLogSyncBlock(w)
        /\ UNCHANGED switch_wait
        /\ running' = IF loc[w].in_parallel_group
                      THEN [running EXCEPT ![w] = @ - 1] ELSE running
        /\ IF last
           THEN /\ last_sequence_' = IF Ok(st) THEN LeaderPublished(w)
                                     ELSE last_sequence_
                /\ bg_error' = MemTableInsertStatusCheck(bg1, wst)
                /\ ExitAsBatchGroupLeader(MainQ, w, g, exitst, wst)
                /\ loc' = [loc EXCEPT ![w].status = exitst]
                /\ pc' = PcAfterExit(w, "lreturn", MainQ, g)
           ELSE /\ bg_error' = bg1
                /\ pc' = [pc EXCEPT ![w] = "lreturn"]
                /\ loc' = [loc EXCEPT ![w].status = st]
                /\ UNCHANGED <<last_sequence_, queue, wstate, wstatus, gleader,
                               group, exited>>
  /\ UNCHANGED <<ltVars, swVars, laVars, fs_error, write_controller, stalls, called_stopped, delay, db, req, cbfailed, sequence, ret,
                 last_allocated_sequence_, mem, prerel,
                 pending_memtable_writes_, rsVars, plVars,
                 cached_recoverable_state_>>

\* WriteImpl, leader: "if (status.ok()) status = w.FinalStatus(); return status"
Leader_Return(w) ==
  /\ pc[w] = "lreturn"
  /\ wstate[w] = "COMPLETED"
  /\ ret' = [ret EXCEPT ![w] =
       IF Ok(loc[w].status) THEN FinalStatus(w) ELSE loc[w].status]
  /\ pc' = [pc EXCEPT ![w] = "done"]
  /\ loc' = [loc EXCEPT ![w] = NoLocals]
  /\ running' = [running EXCEPT ![w] = 0]
  /\ UNCHANGED <<wcVars, delay, log_dir_synced_, getting_synced, switch_wait, db, req, wstate, wstatus, cbfailed, sequence, group, gleader,
                 queue, last_sequence_, last_allocated_sequence_, wal,
                 mem, prerel, bg_error, exited, faults,
                 pending_memtable_writes_, rsVars, plVars,
                 cached_recoverable_state_>>

\* "if (log_used != nullptr) *log_used = w.log_used" of a completed follower
ReportLogUsed(w) == [log_used_out EXCEPT ![w] = log_used[w]]

\* WriteImpl / WriteImplWALOnly, follower woken as STATE_COMPLETED
Follower_Return(w) ==
  /\ pc[w] \in {"wait", "await"}
  /\ wstate[w] = "COMPLETED"
  /\ Route(req[w]) \in {"default", "walonly"}
  /\ log_used_out' = ReportLogUsed(w)
  /\ ret' = [ret EXCEPT ![w] = FinalStatus(w)]
  /\ pc' = [pc EXCEPT ![w] = "done"]
  /\ UNCHANGED <<frVars, delay, log_dir_synced_, getting_synced, switch_wait, db, req, wstate, wstatus, cbfailed, sequence, loc, group,
                 gleader, running, queue, last_sequence_,
                 last_allocated_sequence_, wal, mem, prerel, bg_error, exited,
                 faults,
                 pending_memtable_writes_, rsVars, plVars,
                 cached_recoverable_state_>>

\* ------------------------------------------- WriteRecoverableState
\* WaitForPendingWrites and nonmem_write_thread_.EnterUnbatched ahead of
\* SwitchMemtable
Quiesced ==
  /\ db.unordered_write => pending_memtable_writes_ = 0
  /\ db.enable_pipelined_write => memq = <<>>
  /\ db.two_write_queues => queue[NonMemQ] = <<>>

\* a switching leader holds the second queue through EnterUnbatched
Unbatched == \E x \in Writers : pc[x] = "rs_callback"

\* "seq" of WriteRecoverableState
RecoverableSeq ==
  IF db.two_write_queues THEN last_allocated_sequence_ ELSE last_sequence_

\* WriteRecoverableState without its FetchAddLastAllocatedSequence
RecoverableNotAllocated(last_seq) == last_allocated_sequence_

\* last_allocated_sequence_ once WriteRecoverableState inserted up to last_seq
RecoverableAllocated(last_seq) ==
  IF db.two_write_queues THEN last_seq ELSE last_allocated_sequence_

\* PreprocessWrite -> SwitchMemtable -> WriteRecoverableState, up to the
\* callback loop: the cached batch is inserted and the counters advance
WriteRecoverableState(w) ==
  /\ Preprocesses(w)
  /\ ~Parked(w)
  /\ delay[w] = "none"
  /\ ~IsStopped
  /\ ~SwitchFailed(w)
  /\ switches < MaxSwitch
  /\ cached_recoverable_state_ > 0
  /\ Quiesced
  /\ LET seq == RecoverableSeq
         last_seq == seq + cached_recoverable_state_
     IN /\ rs_mem' = rs_mem \cup ((seq + 1)..last_seq)
        /\ last_allocated_sequence_' = RecoverableAllocated(last_seq)
        /\ last_published_sequence_' =
             IF db.two_write_queues THEN last_seq ELSE last_published_sequence_
        /\ last_sequence_' = last_seq
  /\ IF db.recoverable_cb
     THEN /\ pc' = [pc EXCEPT ![w] = "rs_callback"]
          /\ UNCHANGED <<rs_prerel, cached_recoverable_state_, switches>>
     ELSE /\ cached_recoverable_state_' = 0
          /\ switches' = switches + 1
          /\ UNCHANGED <<pc, rs_prerel>>
  /\ UNCHANGED <<wcVars, delay, log_dir_synced_, getting_synced, switch_wait, db, req, wstate, wstatus, cbfailed, sequence, ret, loc, group,
                 gleader, running, queue, wal, mem, prerel, bg_error,
                 pending_memtable_writes_, exited, faults, plVars>>

\* WriteRecoverableState, the loop over recoverable_state_pre_release_callback_
\* and the clearing of the cached state
RecoverableState_Callback(w) ==
  /\ pc[w] = "rs_callback"
  /\ rs_prerel' = rs_prerel \cup rs_mem
  /\ cached_recoverable_state_' = 0
  /\ switches' = switches + 1
  /\ pc' = [pc EXCEPT ![w] = FirstPc(req[w])]
  /\ UNCHANGED <<wcVars, delay, log_dir_synced_, getting_synced, switch_wait, db, req, wstate, wstatus, cbfailed, sequence, ret, loc, group,
                 gleader, running, queue, last_sequence_,
                 last_allocated_sequence_, wal, mem, prerel, bg_error,
                 pending_memtable_writes_, exited, faults, rs_mem,
                 last_published_sequence_, plVars>>

\* ---------------------------------------------------- SwitchMemtable
\* the column family a write call goes to
CfOf(w) == IF single_column_family_mode_ THEN 1 ELSE ((w - 1) % NumCFs) + 1

\* versions_->GetColumnFamilySet()
ColumnFamilySet == IF single_column_family_mode_ THEN {1} ELSE ColumnFamilies

\* what the immutable memtables of a column family hold
SealedWriters(c) == UNION {c.imm[i].writers : i \in 1..Len(c.imm)}

SealedRs(c) == UNION {c.imm[i].rs : i \in 1..Len(c.imm)}

\* what cfd->mem() holds: the batches inserted since the last switch; the
\* cached recoverable state goes to the default column family
MemWriters(C, cf) ==
  {x \in Writers : /\ pc[x] # "idle" /\ CfOf(x) = cf /\ mem[x] # 0
                   /\ x \notin SealedWriters(C[cf])}

MemRs(C, cf) == IF cf = 1 THEN rs_mem \ SealedRs(C[cf]) ELSE {}

\* cfd->mem()->IsEmpty(), "GetFirstSequenceNumber() == 0"
IsEmpty(C, cf) == MemWriters(C, cf) = {} /\ MemRs(C, cf) = {}

\* switch calls of the run so far
SwitchCalls == SumOver([x \in Writers |-> Len(sw[x])], Writers)

\* the steps of SwitchMemtable that do I/O: CreateWAL and WriteBuffer of the
\* previous log writer
SwitchFaults == IoFaults(IF log_empty_ THEN {} ELSE {"create", "buffer"})

\* what SwitchMemtable reads and writes, while SwitchWAL loops over it
SwitchState ==
  [cfd |-> cfd, logfile_number_ |-> logfile_number_,
   alive_log_files_ |-> alive_log_files_, logs_ |-> logs_,
   next_file_number_ |-> next_file_number_, log_empty_ |-> log_empty_,
   log_dir_synced_ |-> log_dir_synced_,
   bg_error |-> bg_error, s |-> "OK", constructed |-> {}, deleted |-> {}]

\* an error path that keeps the half-constructed objects
DeleteNothing(constructed) == {}

\* "if (new_mem) delete new_mem; if (new_log) delete new_log;
\*  if (new_superversion != nullptr) delete new_superversion"
DeleteConstructed(constructed) == constructed

\* a memtable created one sequence behind the last one
CreationSeqBehind == IF last_sequence_ > 0 THEN last_sequence_ - 1 ELSE 0

\* "SequenceNumber seq = versions_->LastSequence()" handed to
\* ConstructNewMemtable
CreationSeq == last_sequence_

\* SwitchMemtable(cfd, context) after WriteRecoverableState returned OK
SwitchMemtable(S, cf, fail) ==
  LET creating_new_log == ~S.log_empty_
      new_log_number == IF creating_new_log THEN S.next_file_number_
                        ELSE S.logfile_number_
      io_s == IF creating_new_log /\ fail \in {"create", "buffer"}
              THEN fs_error ELSE "OK"
      constructed ==
        IF creating_new_log /\ fail = "create" THEN {}
        ELSE {"new_mem", "new_superversion"}
               \cup (IF creating_new_log THEN {"new_log"} ELSE {})
      bg == SetBGError(S.bg_error, io_s, "MemTable")
      \* the loop over the column families with nothing to keep a log for
      looped == [c \in ColumnFamilies |->
                  IF /\ c \in ColumnFamilySet
                     /\ IsEmpty(S.cfd, c) /\ S.cfd[c].imm = <<>>
                  THEN [S.cfd[c] EXCEPT
                          !.log_number = IF creating_new_log
                                         THEN new_log_number ELSE @,
                          !.creation_seq = last_sequence_]
                  ELSE S.cfd[c]]
      sealed == [creation_seq |-> looped[cf].creation_seq,
                 writers |-> MemWriters(S.cfd, cf), rs |-> MemRs(S.cfd, cf),
                 next_log_number |-> new_log_number]
  IN IF ~Ok(io_s)
     THEN [S EXCEPT
             !.next_file_number_ = IF creating_new_log THEN @ + 1 ELSE @,
             !.bg_error = bg, !.s = bg.st,
             !.constructed = constructed,
             !.deleted = DeleteConstructed(constructed)]
     ELSE [S EXCEPT
             !.next_file_number_ = IF creating_new_log THEN @ + 1 ELSE @,
             !.logfile_number_ = new_log_number,
             !.log_empty_ = IF creating_new_log THEN TRUE ELSE @,
             !.log_dir_synced_ = IF creating_new_log THEN FALSE ELSE @,
             !.logs_ = IF creating_new_log THEN Append(@, new_log_number)
                       ELSE @,
             !.alive_log_files_ =
                IF creating_new_log
                THEN Append(@, [number |-> new_log_number,
                                getting_flushed |-> FALSE])
                ELSE @,
             !.cfd = [looped EXCEPT ![cf].imm = Append(@, sealed),
                                    ![cf].creation_seq = CreationSeq],
             !.constructed = constructed]

\* the loop of SwitchWAL over cfds, left at the first failure
RECURSIVE SwitchAll(_, _, _)
SwitchAll(S, cfds, fail) ==
  IF cfds = {} \/ ~Ok(S.s) THEN S
  ELSE LET cf == CHOOSE c \in cfds : \A d \in cfds : c <= d
       IN SwitchAll(SwitchMemtable(S, cf, fail), cfds \ {cf}, fail)

\* "cfd->imm()->FlushRequested()" for every switched column family and the
\* flush request handed to SchedulePendingFlush
FlushRequested(C, cfds) ==
  [c \in ColumnFamilies |->
     IF c \in cfds THEN [C[c] EXCEPT !.flush_requested = TRUE] ELSE C[c]]

\* what a switch call of leader w leaves behind
Switched(w, kind, S, cfds, fail) ==
  /\ cfd' = IF Ok(S.s) THEN FlushRequested(S.cfd, cfds) ELSE S.cfd
  /\ logfile_number_' = S.logfile_number_
  /\ alive_log_files_' = S.alive_log_files_
  /\ logs_' = S.logs_
  /\ next_file_number_' = S.next_file_number_
  /\ log_empty_' = S.log_empty_
  /\ log_dir_synced_' = S.log_dir_synced_
  /\ bg_error' = S.bg_error
  /\ faults' = IF fail = "none" THEN faults ELSE faults + 1
  /\ sw' = [sw EXCEPT ![w] = Append(@,
              [kind |-> kind, status |-> S.s, cfds |-> cfds,
               from_log |-> logfile_number_,
               constructed |-> S.constructed, deleted |-> S.deleted])]
  /\ UNCHANGED <<single_column_family_mode_, max_total_wal_size,
                 total_log_size_, tmp_batch_, log_used, log_used_out,
                 fs_error, write_controller, stalls,
                 called_stopped, io_failed, ltVars, delay, getting_synced, switch_wait,
                 db, pc, req, wstate, wstatus, cbfailed, sequence, ret, loc,
                 group, gleader, running, queue, last_sequence_,
                 last_allocated_sequence_, wal, mem, prerel,
                 pending_memtable_writes_, exited, rsVars, plVars,
                 cached_recoverable_state_>>

\* what every switch in PreprocessWrite waits for: status.ok(),
\* WaitForPendingWrites, the second queue entered unbatched, and
\* WriteRecoverableState with nothing left to write
CanSwitch(w) ==
  /\ Preprocesses(w)
  /\ ~Parked(w)
  /\ delay[w] = "none"
  /\ ~IsStopped
  /\ ~SwitchFailed(w)
  /\ SwitchCalls < MaxSwitchCalls
  /\ cached_recoverable_state_ = 0
  /\ ~Unbatched
  /\ Quiesced

\* WaitForPendingWrites of a leader about to switch, unordered_write and a
\* positive counter: "if (pending_memtable_writes_.load() == 0) return" does
\* not return and the leader locks switch_mutex_
WaitForPendingWrites_Lock(w) ==
  /\ Preprocesses(w)
  /\ delay[w] = "none"
  /\ ~IsStopped
  /\ ~SwitchFailed(w)
  /\ SwitchCalls < MaxSwitchCalls
  /\ db.unordered_write
  /\ pending_memtable_writes_ > 0
  /\ switch_wait[w] = "none"
  /\ switch_mutex_ = {}
  /\ switch_wait' = [switch_wait EXCEPT ![w] = "locked"]
  /\ UNCHANGED waitVars

\* switch_cv_.wait evaluates its predicate under switch_mutex_: the wait is
\* over when the counter is 0
WaitForPendingWrites_Check(w) ==
  /\ switch_wait[w] = "locked"
  /\ switch_wait' = [switch_wait EXCEPT ![w] =
                       IF pending_memtable_writes_ = 0 THEN "passed"
                       ELSE "checked"]
  /\ UNCHANGED waitVars

\* switch_cv_.wait releases switch_mutex_ and blocks, in one step
WaitForPendingWrites_Block(w) ==
  /\ switch_wait[w] = "checked"
  /\ switch_wait' = [switch_wait EXCEPT ![w] = "waiting"]
  /\ UNCHANGED waitVars

\* a notified leader takes switch_mutex_ again to evaluate the predicate
WaitForPendingWrites_Wake(w) ==
  /\ switch_wait[w] = "woken"
  /\ switch_mutex_ = {}
  /\ switch_wait' = [switch_wait EXCEPT ![w] = "locked"]
  /\ UNCHANGED waitVars

\* column families whose OldestLogToKeep() is at most the oldest alive log
DependOnOldestLog ==
  {c \in ColumnFamilySet : cfd[c].log_number <= alive_log_files_[1].number}

\* PreprocessWrite -> SwitchWAL
SwitchWAL(w) ==
  /\ SwitchWALDue(w)
  /\ CanSwitch(w)
  /\ \E fail \in SwitchFaults :
       LET S0 == [SwitchState EXCEPT
                    !.alive_log_files_[1].getting_flushed = TRUE]
       IN Switched(w, "SwitchWAL", SwitchAll(S0, DependOnOldestLog, fail),
                   DependOnOldestLog, fail)

\* the column family HandleWriteBufferFull picks: among those with a
\* non-empty memtable, the one whose memtable was created first
PickedCF ==
  LET N == {c \in ColumnFamilySet : ~IsEmpty(cfd, c)}
  IN {c \in N : \A d \in N : \/ cfd[c].creation_seq < cfd[d].creation_seq
                              \/ /\ cfd[c].creation_seq = cfd[d].creation_seq
                                 /\ c <= d}

\* the place of a call in PreprocessWrite
PreprocessStep(kind) ==
  CASE kind = "SwitchWAL" -> 1
    [] kind = "HandleWriteBufferFull" -> 2
    [] kind = "TrimMemtableHistory" -> 3
    [] kind = "ScheduleFlushes" -> 4
    [] OTHER -> 0

\* PreprocessWrite of leader w has not come to step k yet
Ahead(w, k) ==
  \A i \in 1..Len(sw[w]) : PreprocessStep(sw[w][i].kind) < k

\* PreprocessWrite -> HandleWriteBufferFull, when the write buffer manager
\* asks for a flush
HandleWriteBufferFull(w) ==
  /\ CanSwitch(w)
  /\ ~SwitchWALDue(w)
  /\ Ahead(w, 2)
  /\ PickedCF # {}
  /\ \E fail \in SwitchFaults :
       Switched(w, "HandleWriteBufferFull",
                SwitchAll(SwitchState, PickedCF, fail), PickedCF, fail)

\* PreprocessWrite -> TrimMemtableHistory, when trim_history_scheduler_ holds
\* column families: their history is trimmed and the status is OK
TrimMemtableHistory(w) ==
  /\ Preprocesses(w)
  /\ ~Parked(w)
  /\ delay[w] = "none"
  /\ ~IsStopped
  /\ ~SwitchFailed(w)
  /\ ~SwitchWALDue(w)
  /\ SwitchCalls < MaxSwitchCalls
  /\ Ahead(w, 3)
  /\ sw' = [sw EXCEPT ![w] = Append(@,
              [kind |-> "TrimMemtableHistory", status |-> "OK",
               cfds |-> ColumnFamilySet, from_log |-> logfile_number_,
               constructed |-> {}, deleted |-> {}])]
  /\ UNCHANGED <<cfd, logfile_number_, alive_log_files_, logs_,
                 next_file_number_, single_column_family_mode_,
                 max_total_wal_size, laVars, fs_error, write_controller,
                 stalls, called_stopped, io_failed, ltVars, delay,
                 log_dir_synced_, getting_synced, switch_wait, db, pc, req, wstate,
                 wstatus, cbfailed, sequence, ret, loc, group, gleader,
                 running, queue, last_sequence_, last_allocated_sequence_,
                 wal, mem, prerel, bg_error, faults,
                 pending_memtable_writes_, exited, rsVars, plVars,
                 cached_recoverable_state_>>

\* PreprocessWrite -> ScheduleFlushes, when flush_scheduler_ holds column
\* families: those with a non-empty memtable are switched
ScheduleFlushes(w) ==
  /\ CanSwitch(w)
  /\ ~SwitchWALDue(w)
  /\ Ahead(w, 4)
  /\ \E cfds \in SUBSET ColumnFamilySet \ {{}}, fail \in SwitchFaults :
       LET full == {c \in cfds : ~IsEmpty(cfd, c)}
       IN /\ full = {} => fail = "none"
          /\ Switched(w, "ScheduleFlushes",
                      SwitchAll(SwitchState, full, fail), full, fail)

\* WriteRecoverableState when a recoverable_state_pre_release_callback_
\* returns an error: the cached state stays and SwitchMemtable returns the
\* status at once
RecoverableState_CallbackFails(w) ==
  /\ pc[w] = "rs_callback"
  /\ faults < MaxFaults
  /\ faults' = faults + 1
  /\ rs_prerel' = rs_prerel \cup {RecoverableSeq}
  /\ switches' = switches + 1
  /\ pc' = [pc EXCEPT ![w] = FirstPc(req[w])]
  /\ sw' = [sw EXCEPT ![w] = Append(@,
              [kind |-> "WriteRecoverableState", status |-> "Aborted",
               cfds |-> {}, from_log |-> logfile_number_,
               constructed |-> {}, deleted |-> {}])]
  /\ UNCHANGED <<cfd, logfile_number_, alive_log_files_, logs_,
                 next_file_number_, single_column_family_mode_,
                 max_total_wal_size, laVars, fs_error, write_controller,
                 stalls, called_stopped, io_failed, ltVars, delay,
                 log_dir_synced_, getting_synced, switch_wait, db, req, wstate, wstatus, cbfailed,
                 sequence, ret, loc, group, gleader, running, queue,
                 last_sequence_, last_allocated_sequence_, wal, mem, prerel,
                 bg_error, pending_memtable_writes_, exited, rs_mem,
                 last_published_sequence_, plVars, cached_recoverable_state_>>

\* ------------------------------------------------- WriteImplWALOnly
\* kDoAssignOrder / kDontAssignOrder as WriteImpl passes it
AssignOrder(r) == Route(r) = "unordered" \/ db.seq_per_batch

\* every WAL-only group publishing, the second queue included
PublishLastSeqAlways(r) == TRUE

\* kDoPublishLastSeq is used by unordered_write only
PublishLastSeq(r) == Route(r) = "unordered"

\* a WAL-only group that reserves nothing
WalOnlyNoSeqInc(w, g, failed) == 0

\* seq_inc of a WAL-only group
WalOnlySeqInc(w, g, failed) ==
  IF AssignOrder(req[w])
  THEN SumOver([x \in Writers |-> BatchCnt(req[x])],
               {x \in Range(g) : ~failed[x]})
  ELSE 0

\* WriteImplWALOnly, leader, preprocess failed: the group is entered and
\* exited with the error
WalOnly_EnterFailed(w) ==
  /\ pc[w] = "wo_enter"
  /\ ~Parked(w)
  /\ ~SwitchWALDue(w)
  /\ PublishLastSeq(req[w])
  /\ DelayWriteReturns(w)
  /\ ~Ok(PreprocessWrite(w))
  /\ delay' = DelayAfter(w)
  /\ LET q == QueueOf(req[w])
         g == EnterAsBatchGroupLeader(q, w)
         st == PreprocessWrite(w)
     IN /\ ExitAsBatchGroupLeader(q, w, g, st, wstatus[w])
        /\ pc' = PcAfterExit(w, "done", q, g)
        /\ ret' = [ret EXCEPT ![w] = st]
        /\ bg_error' = IF IsStopped THEN bg_error
                       ELSE WriteStatusCheck(bg_error, st)
  /\ UNCHANGED <<wcVars, log_dir_synced_, getting_synced, switch_wait, db, req, cbfailed, sequence, loc, running, last_sequence_,
                 last_allocated_sequence_, wal, mem, prerel,
                 pending_memtable_writes_, faults, rsVars, plVars,
                 cached_recoverable_state_>>

\* WriteImplWALOnly, leader: EnterAsBatchGroupLeader, the callback loop and
\* seq_inc
WalOnly_Enter(w) ==
  /\ pc[w] = "wo_enter"
  /\ ~Parked(w)
  /\ ~SwitchWALDue(w)
  /\ PublishLastSeq(req[w]) => DelayWriteReturns(w) /\ Ok(PreprocessWrite(w))
  /\ QueueOf(req[w]) = NonMemQ => ~Unbatched
  /\ delay' = DelayAfter(w)
  /\ LET g == EnterAsBatchGroupLeader(QueueOf(req[w]), w)
         failed == [x \in Writers |->
                      IF x \in Range(g) THEN ~CheckCallback(x) ELSE cbfailed[x]]
     IN /\ group' = [group EXCEPT ![w] = g]
        /\ gleader' = [x \in Writers |-> IF x \in Range(g) THEN w ELSE gleader[x]]
        /\ cbfailed' = failed
        /\ loc' = [loc EXCEPT ![w] =
                     [NoLocals EXCEPT !.seq_inc = WalOnlySeqInc(w, g, failed)]]
  /\ pc' = [pc EXCEPT ![w] = "wo_wal"]
  /\ UNCHANGED <<wcVars, log_dir_synced_, getting_synced, switch_wait, db, req, wstate, wstatus, sequence, ret, running, queue,
                 last_sequence_, last_allocated_sequence_, wal, mem, prerel,
                 bg_error, pending_memtable_writes_, exited, faults, rsVars, plVars,
                 cached_recoverable_state_>>

\* the loop of WriteImplWALOnly that sets writer->sequence
RECURSIVE WalOnlyAssign(_, _, _, _, _)
WalOnlyAssign(leader, g, i, curr, seq) ==
  IF i > Len(g) THEN seq
  ELSE LET x == g[i] IN
    IF cbfailed[x] THEN WalOnlyAssign(leader, g, i + 1, curr, seq)
    ELSE WalOnlyAssign(leader, g, i + 1,
           IF AssignOrder(req[leader]) THEN curr + BatchCnt(req[x]) ELSE curr,
           [seq EXCEPT ![x] = curr])

\* WriteImplWALOnly, leader: ConcurrentWriteToWAL (or the bare allocation when
\* the WAL is disabled) and the assignment of the writers' sequences
WalOnly_WriteWAL(w) ==
  /\ pc[w] = "wo_wal"
  /\ LET g == group[w]
         withWal == ~req[w].disable_wal
         base == FetchAddLastAllocatedSequence
     IN \E fail \in IoFaults(IoSteps(withWal, req[w].sync, FALSE)) :
       \* ConcurrentWriteToWAL, then SyncWAL when the append succeeded
       LET io_s == IF fail = "append" THEN IoStatusOf(fail) ELSE "OK"
       IN /\ io_failed' = IF fail = "none" THEN io_failed
                          ELSE [io_failed EXCEPT ![w] = IoStatusOf(fail)]
          /\ faults' = IF fail = "none" THEN faults ELSE faults + 1
          /\ wal' = LogAfter(WalRecord(g, base + 1, loc[w].seq_inc),
                             withWal, req[w].sync, fail)
          /\ WalAccounting(withWal)
          /\ WalBookkeeping(g, withWal)
          /\ cached_recoverable_state_' = CachedAfter(g, withWal)
          /\ last_allocated_sequence_' = base + loc[w].seq_inc
          /\ loc' = [loc EXCEPT ![w].io_s = io_s,
                                ![w].status = IoStatusOf(fail),
                                ![w].last_sequence = base]
          /\ sequence' = WalOnlyAssign(w, g, 1, base + 1, sequence)
  /\ pc' = [pc EXCEPT ![w] = "wo_finish"]
  /\ UNCHANGED <<ltVars, swVars, fs_error, write_controller, stalls, called_stopped, delay, log_dir_synced_, getting_synced, switch_wait, db, req, wstate, wstatus, cbfailed, ret, group, gleader,
                 running, queue, last_sequence_, mem, prerel, bg_error,
                 pending_memtable_writes_, exited, rsVars, plVars>>

\* the pre-release callback loop of WriteImplWALOnly; acc = [called, status]
RECURSIVE WalOnlyPreRelease(_, _, _)
WalOnlyPreRelease(g, i, acc) ==
  IF i > Len(g) THEN acc
  ELSE LET x == g[i] IN
    IF cbfailed[x] \/ PreReleaseCallbackOf(req[x]) = "none"
    THEN WalOnlyPreRelease(g, i + 1, acc)
    ELSE LET a1 == [acc EXCEPT !.called[x] = sequence[x]] IN
      IF PreReleaseCallbackOf(req[x]) = "fail"
      THEN [a1 EXCEPT !.status = "Busy"]
      ELSE WalOnlyPreRelease(g, i + 1, a1)

\* memtable_write_cnt of a WAL-only group
MemtableWriteCnt(g) ==
  Cardinality({x \in Range(g) : ~cbfailed[x] /\ ~req[x].disable_memtable})

\* an unordered write that goes on to the memtable whatever the WAL-only
\* phase returned
AfterWalOnlyAnyStatus(x, st) ==
  IF Route(req[x]) = "unordered" /\ ~req[x].disable_memtable
  THEN "um_apply" ELSE "done"

\* the position of a writer whose WriteImplWALOnly call returned st
AfterWalOnly(x, st) ==
  IF Route(req[x]) = "unordered" /\ Ok(st) /\ ~req[x].disable_memtable
  THEN "um_apply" ELSE "done"

\* the status WriteImpl returns once WriteImplWALOnly returned st
WalOnlyReturn(x, st) == IF AfterWalOnly(x, st) = "done" THEN st ELSE ""

\* WriteImplWALOnly, leader: status checks, pre-release callbacks, publish,
\* pending_memtable_writes_, ExitAsBatchGroupLeader and return
WalOnly_Finish(w) ==
  /\ pc[w] = "wo_finish"
  /\ LET g == group[w]
         q == QueueOf(req[w])
         st0 == loc[w].status
         bg1 == IF cbfailed[w] THEN bg_error
                ELSE IF ~Ok(loc[w].io_s) THEN IOStatusCheck(bg_error, loc[w].io_s)
                ELSE WriteStatusCheck(bg_error, st0)
         r == IF Ok(st0)
              THEN WalOnlyPreRelease(g, 1, [called |-> prerel, status |-> "OK"])
              ELSE [called |-> prerel, status |-> st0]
         st == r.status
         myst == IF Ok(st) THEN FinalStatus(w) ELSE st
     IN /\ bg_error' = bg1
        /\ prerel' = r.called
        /\ last_sequence_' = IF PublishLastSeq(req[w])
                             THEN loc[w].last_sequence + loc[w].seq_inc
                             ELSE last_sequence_
        /\ pending_memtable_writes_' =
             IF db.unordered_write /\ Ok(st)
             THEN pending_memtable_writes_ + MemtableWriteCnt(g)
             ELSE pending_memtable_writes_
        /\ ExitAsBatchGroupLeader(q, w, g, st, wstatus[w])
        /\ pc' = PcAfterExit(w, AfterWalOnly(w, myst), q, g)
        /\ ret' = [ret EXCEPT ![w] = WalOnlyReturn(w, myst)]
        /\ loc' = [loc EXCEPT ![w] = NoLocals]
  /\ UNCHANGED <<wcVars, delay, log_dir_synced_, getting_synced, switch_wait, db, req, cbfailed, sequence, running,
                 last_allocated_sequence_, wal, mem, faults, rsVars, plVars,
                 cached_recoverable_state_>>

\* WriteImplWALOnly, follower woken as STATE_COMPLETED, in unordered mode
Unordered_FollowerReturn(w) ==
  /\ pc[w] = "wait"
  /\ wstate[w] = "COMPLETED"
  /\ Route(req[w]) = "unordered"
  /\ log_used_out' = ReportLogUsed(w)
  /\ pc' = [pc EXCEPT ![w] = AfterWalOnly(w, FinalStatus(w))]
  /\ ret' = [ret EXCEPT ![w] = WalOnlyReturn(w, FinalStatus(w))]
  /\ UNCHANGED <<frVars, delay, log_dir_synced_, getting_synced, switch_wait, db, req, wstate, wstatus, cbfailed, sequence, loc, group,
                 gleader, running, queue, last_sequence_,
                 last_allocated_sequence_, wal, mem, prerel, bg_error,
                 pending_memtable_writes_, exited, faults, rsVars, plVars,
                 cached_recoverable_state_>>

\* UnorderedWriteMemtable up to "pending_memtable_writes_.fetch_sub(1)"; a
\* writer that did not bring the counter to 0 goes on to WriteStatusCheck
\* and returns
UnorderedWriteMemtable(w) ==
  /\ pc[w] = "um_apply"
  /\ InsertOwn(w)
  /\ pending_memtable_writes_' = pending_memtable_writes_ - 1
  /\ LET st == IF CheckCallback(w) /\ ShouldWriteToMemtable(w)
               THEN InsertStatus(w) ELSE wstatus[w]
     IN IF pending_memtable_writes_ - 1 = 0
        THEN /\ pc' = [pc EXCEPT ![w] = "um_notify"]
             /\ UNCHANGED <<bg_error, ret>>
        ELSE /\ bg_error' = WriteStatusCheck(bg_error, st)
             /\ ret' = [ret EXCEPT ![w] = st]
             /\ pc' = [pc EXCEPT ![w] = "done"]
  /\ UNCHANGED <<wcVars, delay, log_dir_synced_, getting_synced, switch_wait, db, req, wstate, cbfailed, sequence, loc, group, gleader,
                 running, queue, last_sequence_, last_allocated_sequence_, wal,
                 prerel, exited, faults, rsVars, plVars,
                 cached_recoverable_state_>>

\* the rest of a call whose fetch_sub brought the counter to 0, with
\* switch_cv_.notify_all() called without switch_mutex_
UnorderedWriteMemtable_NotifyUnlocked(w) ==
  /\ pc[w] = "um_notify"
  /\ switch_wait' = [x \in Writers |->
                       IF x \in switch_cv_ THEN "woken" ELSE switch_wait[x]]
  /\ bg_error' = WriteStatusCheck(bg_error, wstatus[w])
  /\ ret' = [ret EXCEPT ![w] = wstatus[w]]
  /\ pc' = [pc EXCEPT ![w] = "done"]
  /\ UNCHANGED <<wcVars, delay, log_dir_synced_, getting_synced, db, req,
                 wstate, wstatus, cbfailed, sequence, loc, group, gleader,
                 running, queue, last_sequence_, last_allocated_sequence_,
                 wal, mem, prerel, pending_memtable_writes_, exited, faults,
                 rsVars, plVars, cached_recoverable_state_>>

\* the rest of UnorderedWriteMemtable when its fetch_sub brought the counter
\* to 0: "std::lock_guard<std::mutex> lck(switch_mutex_);
\* switch_cv_.notify_all()", then WriteStatusCheck and the return
UnorderedWriteMemtable_Notify(w) ==
  /\ pc[w] = "um_notify"
  /\ switch_mutex_ = {}
  /\ switch_wait' = [x \in Writers |->
                       IF x \in switch_cv_ THEN "woken" ELSE switch_wait[x]]
  /\ bg_error' = WriteStatusCheck(bg_error, wstatus[w])
  /\ ret' = [ret EXCEPT ![w] = wstatus[w]]
  /\ pc' = [pc EXCEPT ![w] = "done"]
  /\ UNCHANGED <<wcVars, delay, log_dir_synced_, getting_synced, db, req,
                 wstate, wstatus, cbfailed, sequence, loc, group, gleader,
                 running, queue, last_sequence_, last_allocated_sequence_,
                 wal, mem, prerel, pending_memtable_writes_, exited, faults,
                 rsVars, plVars, cached_recoverable_state_>>

\* ----------------------------------------------- PipelinedWriteImpl
\* WriteThread::UpdateLastSequence
UpdateLastSequence(cur, s) == IF s > cur THEN s ELSE cur

\* the loop of PipelinedWriteImpl that sets writer->sequence; acc = [seq, next]
RECURSIVE PipelinedAssign(_, _, _, _)
PipelinedAssign(g, i, failed, acc) ==
  IF i > Len(g) THEN acc
  ELSE LET x == g[i] IN
    IF ~failed[x] /\ Ok(wstatus[x]) /\ ~req[x].disable_memtable
    THEN PipelinedAssign(g, i + 1, failed,
           [seq |-> [acc.seq EXCEPT ![x] = acc.next],
            next |-> acc.next + req[x].count])
    ELSE PipelinedAssign(g, i + 1, failed, acc)

\* PipelinedWriteImpl, WAL leader: PreprocessWrite, EnterAsBatchGroupLeader,
\* UpdateLastSequence and the loop that checks callbacks and assigns sequences
Pipelined_Enter(w) ==
  /\ pc[w] = "pl_enter"
  /\ ~SwitchWALDue(w)
  /\ DelayWriteReturns(w)
  /\ delay' = DelayAfter(w)
  /\ LET st == PreprocessWrite(w)
         g == EnterAsBatchGroupLeader(MainQ, w)
         synced == UpdateLastSequence(wt_last_sequence, last_sequence_)
         failed == [x \in Writers |->
                      IF x \in Range(g) /\ Ok(st)
                      THEN ~CheckCallback(x) ELSE cbfailed[x]]
         r == PipelinedAssign(g, 1, failed, [seq |-> sequence, next |-> synced + 1])
     IN /\ ~LogSyncWaits(w, st)
        /\ getting_synced' = GettingSynced(w, st)
        /\ UNCHANGED switch_wait
        /\ group' = [group EXCEPT ![w] = g]
        /\ gleader' = [x \in Writers |-> IF x \in Range(g) THEN w ELSE gleader[x]]
        /\ wstatus' = [wstatus EXCEPT ![w] = st]
        /\ cbfailed' = failed
        /\ sequence' = IF Ok(st) THEN r.seq ELSE sequence
        /\ wt_last_sequence' =
             IF Ok(st) THEN UpdateLastSequence(synced, r.next - 1) ELSE synced
        /\ loc' = [loc EXCEPT ![w] =
             [NoLocals EXCEPT !.status = st, !.last_sequence = synced,
                              !.seq_inc = IF Ok(st) THEN r.next - 1 - synced
                                          ELSE 0,
                              !.need_log_sync = NeedLogSync(w, st),
                              !.need_log_dir_sync =
                                 NeedLogSync(w, st) /\ ~log_dir_synced_]]
  /\ pc' = [pc EXCEPT ![w] = "pl_wal"]
  /\ UNCHANGED <<wcVars, log_dir_synced_, db, req, wstate, ret, running, queue, last_sequence_,
                 last_allocated_sequence_, wal, mem, prerel, bg_error,
                 pending_memtable_writes_, exited, faults, rsVars, memq,
                 cached_recoverable_state_>>

\* the members of a WAL group that go on to the memtable phase
MemTableWriters(g, st) ==
  SelectSeq(g, LAMBDA x : Ok(st) /\ ~cbfailed[x] /\ ~req[x].disable_memtable)

\* PipelinedWriteImpl, WAL leader: WriteToWAL, the status checks and
\* ExitAsBatchGroupLeader, which completes the writers that skip the memtable
\* and links the others as memtable writers
Pipelined_WriteWAL(w) ==
  /\ pc[w] = "pl_wal"
  /\ LET withWal == Ok(loc[w].status) /\ ~req[w].disable_wal
     IN \E fail \in IoFaults(IoSteps(withWal, loc[w].need_log_sync,
                                     loc[w].need_log_dir_sync)) :
       LET g == group[w]
           io_s == IoStatusOf(fail)
           st == IF withWal THEN io_s ELSE loc[w].status
           mw == MemTableWriters(g, st)
           nl == NextLeader(MainQ, g)
           ml == IF memq = <<>> /\ mw # <<>> THEN mw[1] ELSE NoWriter
       IN /\ io_failed' = IF fail = "none" THEN io_failed
                          ELSE [io_failed EXCEPT ![w] = IoStatusOf(fail)]
          /\ faults' = IF fail = "none" THEN faults ELSE faults + 1
          /\ wal' = LogAfter(WalRecord(g, loc[w].last_sequence + 1,
                                       loc[w].seq_inc),
                             withWal, loc[w].need_log_sync, fail)
          /\ WalAccounting(withWal)
          /\ WalBookkeeping(g, withWal)
          /\ log_dir_synced_' =
               IF loc[w].need_log_sync /\ Ok(st) /\ loc[w].need_log_dir_sync
               THEN TRUE ELSE log_dir_synced_
          /\ getting_synced' = NeedLogSyncBlock(w)
          /\ UNCHANGED switch_wait
          /\ cached_recoverable_state_' = CachedAfter(g, withWal)
          /\ bg_error' = IF cbfailed[w] THEN bg_error
                         ELSE IF ~Ok(io_s) THEN IOStatusCheck(bg_error, io_s)
                         ELSE WriteStatusCheck(bg_error, st)
          /\ wstatus' = [x \in Writers |-> IF x \in Range(g) THEN st ELSE wstatus[x]]
          /\ wstate' = [x \in Writers |->
                          IF x = ml THEN "MEMTABLE_WRITER_LEADER"
                          ELSE IF x \in Range(g) /\ x \notin Range(mw) THEN "COMPLETED"
                          ELSE IF x \in Range(mw) THEN wstate[x]
                          ELSE IF x = nl THEN "GROUP_LEADER" ELSE wstate[x]]
          /\ memq' = memq \o mw
          /\ queue' = [queue EXCEPT ![MainQ] = QueueAfterExit(MainQ, g)]
          /\ gleader' = [x \in Writers |-> IF x \in Range(g) THEN NoWriter ELSE gleader[x]]
          /\ group' = [group EXCEPT ![w] = <<>>]
          /\ exited' = exited \o g
          /\ pc' = PcAfterExit(w, "wait", MainQ, g)
          /\ loc' = [loc EXCEPT ![w] = NoLocals]
  /\ UNCHANGED <<ltVars, swVars, fs_error, write_controller, stalls, called_stopped, delay, db, req, cbfailed, sequence, ret, running,
                 last_sequence_, last_allocated_sequence_, mem, prerel,
                 pending_memtable_writes_, rsVars, wt_last_sequence>>

\* WriteGroup::last_sequence as EnterAsMemTableWriter sets it
GroupLastSequence(g) == sequence[g[Len(g)]] + req[g[Len(g)]].count - 1

\* WriteThread::ExitAsMemTableWriter: a failed group status is stamped on every
\* member, all are COMPLETED and the next memtable writer leads
ExitAsMemTableWriter(g, status) ==
  LET rest == SubSeq(memq, Len(g) + 1, Len(memq))
      nl == IF rest = <<>> THEN NoWriter ELSE rest[1]
  IN /\ memq' = rest
     /\ wstate' = [x \in Writers |->
                     IF x \in Range(g) THEN "COMPLETED"
                     ELSE IF x = nl THEN "MEMTABLE_WRITER_LEADER" ELSE wstate[x]]
     /\ wstatus' = [x \in Writers |->
                     IF x \in Range(g) /\ ~Ok(status) THEN status ELSE wstatus[x]]
     /\ gleader' = [x \in Writers |-> IF x \in Range(g) THEN NoWriter ELSE gleader[x]]
     /\ group' = [x \in Writers |-> IF x \in Range(g) THEN <<>> ELSE group[x]]

\* PipelinedWriteImpl, memtable leader of a serial group: EnterAsMemTableWriter,
\* InsertInto(memtable_write_group), SetLastSequence, ExitAsMemTableWriter
Pipelined_SerialApply(w) ==
  /\ pc[w] = "wait"
  /\ wstate[w] = "MEMTABLE_WRITER_LEADER"
  /\ ~(Len(memq) > 1 /\ db.allow_concurrent_memtable_write)
  /\ LET g == memq
         r == InsertGroup(g, 1, [mem |-> mem, status |-> "OK"])
     IN /\ mem' = r.mem
        /\ last_sequence_' = GroupLastSequence(g)
        /\ ExitAsMemTableWriter(g, r.status)
  /\ UNCHANGED <<wcVars, delay, log_dir_synced_, getting_synced, switch_wait, db, pc, req, cbfailed, sequence, ret, loc, running, queue,
                 last_allocated_sequence_, wal, prerel, bg_error,
                 pending_memtable_writes_, exited, faults, rsVars,
                 wt_last_sequence, cached_recoverable_state_>>

\* PipelinedWriteImpl, memtable leader: LaunchParallelMemTableWriters
Pipelined_LaunchParallel(w) ==
  /\ pc[w] = "wait"
  /\ wstate[w] = "MEMTABLE_WRITER_LEADER"
  /\ Len(memq) > 1 /\ db.allow_concurrent_memtable_write
  /\ group' = [group EXCEPT ![w] = memq]
  /\ gleader' = [x \in Writers |-> IF x \in Range(memq) THEN w ELSE gleader[x]]
  /\ running' = [running EXCEPT ![w] = Len(memq)]
  /\ wstate' = [x \in Writers |->
                 IF x \in Range(memq) THEN "PARALLEL_MEMTABLE_WRITER"
                 ELSE wstate[x]]
  /\ UNCHANGED <<wcVars, delay, log_dir_synced_, getting_synced, switch_wait, db, pc, req, wstatus, cbfailed, sequence, ret, loc, queue,
                 last_sequence_, last_allocated_sequence_, wal, mem, prerel,
                 bg_error, pending_memtable_writes_, exited, faults, rsVars,
                 plVars, cached_recoverable_state_>>

\* PipelinedWriteImpl, STATE_PARALLEL_MEMTABLE_WRITER: the writer's own insert
Pipelined_ParallelApply(w) ==
  /\ pc[w] = "wait"
  /\ wstate[w] = "PARALLEL_MEMTABLE_WRITER"
  /\ Route(req[w]) = "pipelined"
  /\ InsertOwn(w)
  /\ pc' = [pc EXCEPT ![w] = "pl_complete"]
  /\ UNCHANGED <<wcVars, delay, log_dir_synced_, getting_synced, switch_wait, db, req, wstate, cbfailed, sequence, ret, loc, group, gleader,
                 running, queue, last_sequence_, last_allocated_sequence_, wal,
                 prerel, bg_error, pending_memtable_writes_, exited, faults,
                 rsVars, plVars, cached_recoverable_state_>>

\* PipelinedWriteImpl: CompleteParallelMemTableWriter and, for the last writer,
\* MemTableInsertStatusCheck, SetLastSequence and ExitAsMemTableWriter
Pipelined_Complete(w) ==
  /\ pc[w] = "pl_complete"
  /\ LET l == gleader[w]
         g == group[l]
     IN /\ running' = [running EXCEPT ![l] = @ - 1]
        /\ IF running[l] > 1
           THEN UNCHANGED <<last_sequence_, bg_error, memq, wstate, wstatus,
                            gleader, group>>
           ELSE /\ last_sequence_' = GroupLastSequence(g)
                /\ bg_error' = MemTableInsertStatusCheck(bg_error, GroupStatus(g))
                /\ ExitAsMemTableWriter(g, GroupStatus(g))
  /\ pc' = [pc EXCEPT ![w] = "await"]
  /\ UNCHANGED <<wcVars, delay, log_dir_synced_, getting_synced, switch_wait, db, req, cbfailed, sequence, ret, loc, queue,
                 last_allocated_sequence_, wal, mem, prerel,
                 pending_memtable_writes_, exited, faults, rsVars,
                 wt_last_sequence, cached_recoverable_state_>>

\* PipelinedWriteImpl: "return w.FinalStatus()" once STATE_COMPLETED
Pipelined_Return(w) ==
  /\ pc[w] \in {"wait", "await"}
  /\ wstate[w] = "COMPLETED"
  /\ Route(req[w]) = "pipelined"
  /\ ret' = [ret EXCEPT ![w] = FinalStatus(w)]
  /\ pc' = [pc EXCEPT ![w] = "done"]
  /\ running' = [running EXCEPT ![w] = 0]
  /\ UNCHANGED <<wcVars, delay, log_dir_synced_, getting_synced, switch_wait, db, req, wstate, wstatus, cbfailed, sequence, loc, group,
                 gleader, queue, last_sequence_, last_allocated_sequence_, wal,
                 mem, prerel, bg_error, pending_memtable_writes_, exited,
                 faults, rsVars, plVars, cached_recoverable_state_>>

\* ------------------------------------------------------- write stall
\* WriteThread::BeginWriteStall: the writers behind the leader that must not
\* be slowed down
StallFailed(w) ==
  {x \in Range(queue[MainQ]) : x # w /\ req[x].no_slowdown}

\* DelayWrite, a leader that may be slowed down: BeginWriteStall fails the
\* pending no_slowdown writers, then the leader sleeps or waits on bg_cv_
DelayWrite_Begin(w) ==
  /\ Preprocesses(w)
  /\ ~Parked(w)
  /\ delay[w] = "none"
  /\ ~SwitchWALDue(w)
  /\ ~SwitchFailed(w)
  /\ ~IsStopped
  /\ NeedsDelay
  /\ ~req[w].no_slowdown
  /\ delay' = [delay EXCEPT ![w] = "waiting"]
  /\ LET F == StallFailed(w)
         out == SelectSeq(queue[MainQ], LAMBDA x : x \in F)
     IN /\ queue' = [queue EXCEPT
                       ![MainQ] = SelectSeq(@, LAMBDA x : x \notin F)]
        /\ wstate' = [x \in Writers |->
                        IF x \in F THEN "COMPLETED" ELSE wstate[x]]
        /\ wstatus' = [x \in Writers |->
                         IF x \in F THEN "Incomplete: Write stall"
                         ELSE wstatus[x]]
        /\ exited' = exited \o out
  /\ UNCHANGED <<wcVars, log_dir_synced_, getting_synced, switch_wait, db, pc, req, cbfailed, sequence, ret,
                 loc, group, gleader, running, last_sequence_,
                 last_allocated_sequence_, wal, mem, prerel, bg_error, faults,
                 pending_memtable_writes_, rsVars, plVars,
                 cached_recoverable_state_>>

\* JoinBatchGroup while the stall barrier is up: a no_slowdown writer fails
WriteStall_Observe(w) ==
  /\ Stalled
  /\ pc[w] = "wait"
  /\ wstate[w] = "LOCKED_WAITING"
  /\ req[w].no_slowdown
  /\ w \in Range(queue[MainQ])
  /\ queue' = [queue EXCEPT ![MainQ] = SelectSeq(@, LAMBDA x : x # w)]
  /\ wstate' = [wstate EXCEPT ![w] = "COMPLETED"]
  /\ wstatus' = [wstatus EXCEPT ![w] = "Incomplete: Write stall"]
  /\ exited' = Append(exited, w)
  /\ UNCHANGED <<wcVars, delay, log_dir_synced_, getting_synced, switch_wait, db, pc, req, cbfailed,
                 sequence, ret, loc, group, gleader, running, last_sequence_,
                 last_allocated_sequence_, wal, mem, prerel, bg_error, faults,
                 pending_memtable_writes_, rsVars, plVars,
                 cached_recoverable_state_>>

\* the background work raises a stall condition: writes are delayed or stopped
WriteController_Stall ==
  /\ stalls < MaxStalls
  /\ write_controller = "normal"
  /\ write_controller' \in {"delayed", "stopped"}
  /\ stalls' = stalls + 1
  /\ UNCHANGED <<ltVars, swVars, laVars, fs_error, called_stopped, io_failed, delay, log_dir_synced_, getting_synced, switch_wait, db, pc, req,
                 wstate,
                 wstatus, cbfailed, sequence, ret, loc, group, gleader, running,
                 queue, last_sequence_, last_allocated_sequence_, wal, mem,
                 prerel, bg_error, exited, faults, pending_memtable_writes_,
                 rsVars, plVars, cached_recoverable_state_>>

\* the background work caught up: the stall condition is cleared
WriteController_Resume ==
  /\ write_controller # "normal"
  /\ write_controller' = "normal"
  /\ UNCHANGED <<ltVars, swVars, laVars, fs_error, called_stopped, io_failed, stalls, delay, log_dir_synced_, getting_synced, switch_wait, db,
                 pc, req, wstate,
                 wstatus, cbfailed, sequence, ret, loc, group, gleader, running,
                 queue, last_sequence_, last_allocated_sequence_, wal, mem,
                 prerel, bg_error, exited, faults, pending_memtable_writes_,
                 rsVars, plVars, cached_recoverable_state_>>

\* ------------------------------------------ ConcurrentTaskLimiterImpl
LThreads == 1..NumThreads

\* a thread of the limiter takes the step that leaves it as r
LimiterStep(t, r) ==
  /\ lt' = [lt EXCEPT ![t] = r]
  /\ UNCHANGED <<db, pc, req, wstate, wstatus, cbfailed, sequence, ret, loc,
                 group, gleader, running, queue, last_sequence_,
                 last_allocated_sequence_, wal, mem, prerel, bg_error,
                 pending_memtable_writes_, exited, faults,
                 cached_recoverable_state_, rsVars, plVars, fs_error,
                 write_controller, stalls, delay, log_dir_synced_, getting_synced, switch_wait,
                 called_stopped, io_failed, swVars, laVars>>

\* a throttle that admits a task at the cap
ThrottleAtCap(force, limit, tasks) == force \/ limit < 0 \/ tasks <= limit

\* "while (force || limit < 0 || tasks < limit)"
Throttle(force, limit, tasks) == force \/ limit < 0 \/ tasks < limit

\* a destructor that forgets the decrement
KeepOutstanding(n) == n

\* "--limiter_->outstanding_tasks_"
ReleaseOutstanding(n) == n - 1

\* a thread outside GetToken: the locals of the call are gone
Returned ==
  [pc |-> "idle", force |-> FALSE, limit |-> 0, tasks |-> 0,
   token |-> "none"]

\* GetToken: limit = max_outstanding_tasks_.load(relaxed)
GetToken_LoadLimit(t, force) ==
  /\ lt[t].pc = "idle"
  /\ lh.gets < MaxGets
  /\ LimiterStep(t, [lt[t] EXCEPT !.pc = "load", !.force = force,
                                  !.limit = max_outstanding_tasks_])
  /\ lh' = [lh EXCEPT !.gets = @ + 1]
  /\ UNCHANGED <<max_outstanding_tasks_, outstanding_tasks_>>

\* GetToken: tasks = outstanding_tasks_.load(relaxed)
GetToken_LoadTasks(t) ==
  /\ lt[t].pc = "load"
  /\ LimiterStep(t, [lt[t] EXCEPT !.pc = "loop", !.tasks = outstanding_tasks_])
  /\ UNCHANGED <<max_outstanding_tasks_, outstanding_tasks_, lh>>

\* GetToken: one turn of the loop. compare_exchange_weak either installs
\* tasks + 1 and the token is returned, or reloads tasks and the loop goes
\* on (a spurious failure reloads the same value); when the loop condition
\* fails nullptr is returned
GetToken_Loop(t) ==
  /\ lt[t].pc = "loop"
  /\ IF Throttle(lt[t].force, lt[t].limit, lt[t].tasks)
     THEN IF outstanding_tasks_ = lt[t].tasks
          THEN /\ outstanding_tasks_' = lt[t].tasks + 1
               /\ LimiterStep(t, [Returned EXCEPT
                       !.pc = "holding",
                       !.token = IF lt[t].force THEN "forced" ELSE "plain"])
               /\ lh' = [lh EXCEPT !.forced = @ \/ lt[t].force]
          ELSE /\ LimiterStep(t, [lt[t] EXCEPT !.tasks = outstanding_tasks_])
               /\ UNCHANGED <<outstanding_tasks_, lh>>
     ELSE /\ LimiterStep(t, Returned)
          /\ UNCHANGED <<outstanding_tasks_, lh>>
  /\ UNCHANGED max_outstanding_tasks_

\* ~TaskLimiterToken
Token_Destroy(t) ==
  /\ lt[t].pc = "holding"
  /\ outstanding_tasks_' = ReleaseOutstanding(outstanding_tasks_)
  /\ LimiterStep(t, Returned)
  /\ UNCHANGED <<max_outstanding_tasks_, lh>>

\* SetMaxOutstandingTask(limit); lh keeps the highest cap the limiter has
\* had and whether it was ever unlimited
SetMaxOutstandingTask(limit) ==
  /\ lh.sets < MaxSets
  /\ max_outstanding_tasks_' = limit
  /\ lh' = [lh EXCEPT !.highest = IF limit > @ THEN limit ELSE @,
                      !.unlimited = @ \/ limit < 0, !.sets = @ + 1]
  /\ LimiterStep(1, lt[1])
  /\ UNCHANGED outstanding_tasks_

\* ResetMaxOutstandingTask: store(-1)
ResetMaxOutstandingTask == SetMaxOutstandingTask(-1)

LimiterNext ==
  \/ \E t \in LThreads, force \in BOOLEAN : GetToken_LoadLimit(t, force)
  \/ \E t \in LThreads : GetToken_LoadTasks(t)
  \/ \E t \in LThreads : GetToken_Loop(t)
  \/ \E t \in LThreads : Token_Destroy(t)
  \/ \E limit \in -1..MaxLimit : SetMaxOutstandingTask(limit)
  \/ ResetMaxOutstandingTask

\* one limiter used by concurrent threads; the DB stays as opened
LimiterInit ==
  /\ InitDB /\ db = DefaultOptions /\ fs_error = "IOError"
  /\ \E cap \in -1..MaxLimit : LimiterConstructed(cap)
  /\ Opened(TRUE, 0)

LimiterSpec == LimiterInit /\ [][LimiterNext]_vars

\* every step of a write call after WriteImpl's entry
WriteSteps ==
  \/ \E w \in Writers : Leader_Enter(w)
  \/ \E w \in Writers : Leader_WriteWAL(w)
  \/ \E w \in Writers : Leader_PreRelease(w)
  \/ \E w \in Writers : Leader_SerialApply(w)
  \/ \E w \in Writers : Leader_LaunchParallel(w)
  \/ \E w \in Writers : Leader_ParallelApply(w)
  \/ \E w \in Writers : Follower_ParallelApply(w)
  \/ \E w \in Writers : Follower_Complete(w)
  \/ \E w \in Writers : Leader_Finish(w)
  \/ \E w \in Writers : Leader_Return(w)
  \/ \E w \in Writers : Follower_Return(w)
  \/ \E w \in Writers : WalOnly_EnterFailed(w)
  \/ \E w \in Writers : WalOnly_Enter(w)
  \/ \E w \in Writers : WalOnly_WriteWAL(w)
  \/ \E w \in Writers : WalOnly_Finish(w)
  \/ \E w \in Writers : Unordered_FollowerReturn(w)
  \/ \E w \in Writers : UnorderedWriteMemtable(w)
  \/ \E w \in Writers : UnorderedWriteMemtable_Notify(w)
  \/ \E w \in Writers : WriteRecoverableState(w)
  \/ \E w \in Writers : RecoverableState_Callback(w)
  \/ \E w \in Writers : Pipelined_Enter(w)
  \/ \E w \in Writers : Pipelined_WriteWAL(w)
  \/ \E w \in Writers : Pipelined_SerialApply(w)
  \/ \E w \in Writers : Pipelined_LaunchParallel(w)
  \/ \E w \in Writers : Pipelined_ParallelApply(w)
  \/ \E w \in Writers : Pipelined_Complete(w)
  \/ \E w \in Writers : Pipelined_Return(w)

\* the requests of call w of a run: the last call is a plain write or a
\* write with a failing callback
RequestsOf(w) ==
  IF w < NumWriters
  THEN Requests \cup OptionRequests \cup GroupRequests
  ELSE {BaseRequest, [BaseRequest EXCEPT !.cb = "fail"]}

Next ==
  \/ \E w \in Writers : \E r \in Requests \cap RequestsOf(w) :
       WriteImpl_Join(w, r)
  \/ WriteSteps

\* write calls with sync and no_slowdown under a write controller that stalls
OptionsNext ==
  \/ \E w \in 1..MaxOptionCalls, r \in OptionRequests : WriteImpl_Join(w, r)
  \/ WriteSteps
  \/ \E w \in Writers : DelayWrite_Begin(w)
  \/ \E w \in Writers : WriteStall_Observe(w)
  \/ WriteController_Stall
  \/ WriteController_Resume

OptionsSpec == OptionsInit /\ [][OptionsNext]_vars

\* the steps of a stall that the write threads take themselves
StallSteps ==
  \/ \E w \in Writers : DelayWrite_Begin(w)
  \/ \E w \in Writers : WriteStall_Observe(w)

\* fair scheduling: a thread that can take a step of its call takes one, and
\* the write controller does not stay stopped or delayed for ever
FairOptionsSpec ==
  /\ OptionsInit /\ [][OptionsNext]_vars
  /\ WF_vars(WriteSteps)
  /\ WF_vars(StallSteps)
  /\ WF_vars(WriteController_Resume)



Spec == Init /\ [][Next]_vars

\* write groups whose batches hold merges or WAL termination points
GroupNext ==
  \/ \E w \in Writers : \E r \in GroupRequests \cap RequestsOf(w) :
       WriteImpl_Join(w, r)
  \/ WriteSteps

GroupSpec == Init /\ [][GroupNext]_vars

\* write calls to several column families under a small WAL budget
SwitchRequests ==
  { BaseRequest,
    [BaseRequest EXCEPT !.count = MaxCount, !.batch_cnt = MaxCount,
                        !.pre = "ok"],
    [BaseRequest EXCEPT !.disable_wal = TRUE],
    [BaseRequest EXCEPT !.disable_memtable = TRUE, !.lps = TRUE] }

SwitchInit ==
  /\ InitDB /\ fs_error = "IOError" /\ LimiterConstructed(0)
  /\ \E single \in BOOLEAN, max_wal \in {0, 2} : Opened(single, max_wal)

SwitchNext ==
  \/ \E w \in Writers : \E r \in SwitchRequests \cap RequestsOf(w) :
       WriteImpl_Join(w, r)
  \/ WriteSteps
  \/ \E w \in Writers : SwitchWAL(w)
  \/ \E w \in Writers : HandleWriteBufferFull(w)
  \/ \E w \in Writers : RecoverableState_CallbackFails(w)

SwitchSpec == SwitchInit /\ [][SwitchNext]_vars

\* the steps of a write call under unordered_write
UnorderedSteps ==
  \/ \E w \in Writers : WalOnly_EnterFailed(w)
  \/ \E w \in Writers : WalOnly_Enter(w)
  \/ \E w \in Writers : WalOnly_WriteWAL(w)
  \/ \E w \in Writers : WalOnly_Finish(w)
  \/ \E w \in Writers : Unordered_FollowerReturn(w)
  \/ \E w \in Writers : UnorderedWriteMemtable(w)
  \/ \E w \in Writers : UnorderedWriteMemtable_Notify(w)

\* the steps of a leader inside WaitForPendingWrites
WaitSteps ==
  \/ \E w \in Writers : WaitForPendingWrites_Lock(w)
  \/ \E w \in Writers : WaitForPendingWrites_Check(w)
  \/ \E w \in Writers : WaitForPendingWrites_Block(w)
  \/ \E w \in Writers : WaitForPendingWrites_Wake(w)

WaitRequests ==
  { BaseRequest, [BaseRequest EXCEPT !.disable_wal = TRUE] }

\* a DB with two column families opened with unordered_write
WaitInit ==
  /\ InitDB /\ db.unordered_write /\ fs_error = "IOError"
  /\ LimiterConstructed(0)
  /\ \E max_wal \in {0, 2} : Opened(FALSE, max_wal)

WaitNext ==
  \/ \E w \in Writers : \E r \in WaitRequests \cap RequestsOf(w) :
       WriteImpl_Join(w, r)
  \/ UnorderedSteps
  \/ WaitSteps
  \/ \E w \in Writers : SwitchWAL(w)
  \/ \E w \in Writers : HandleWriteBufferFull(w)
  \/ \E w \in Writers : ScheduleFlushes(w)

\* fair scheduling: a thread that can take a step of its write call or of
\* its wait takes one
FairWaitSpec ==
  /\ WaitInit /\ [][WaitNext]_vars
  /\ WF_vars(UnorderedSteps)
  /\ WF_vars(WaitSteps)

\* write calls that ask for a log sync, with a pre-release callback that may
\* fail, run against memtable switches and write stalls
PreprocessRequests ==
  { [BaseRequest EXCEPT !.sync = TRUE],
    [BaseRequest EXCEPT !.sync = TRUE, !.pre = "fail"],
    [BaseRequest EXCEPT !.sync = TRUE, !.no_slowdown = TRUE],
    [BaseRequest EXCEPT !.disable_memtable = TRUE, !.lps = TRUE] }

PreprocessNext ==
  \/ \E w \in 1..MaxOptionCalls, r \in PreprocessRequests :
       /\ w > 1 => ~r.lps /\ r.pre # "fail"
       /\ WriteImpl_Join(w, r)
  \/ WriteSteps
  \/ \E w \in Writers : SwitchWAL(w)
  \/ \E w \in Writers : HandleWriteBufferFull(w)
  \/ \E w \in Writers : TrimMemtableHistory(w)
  \/ \E w \in Writers : ScheduleFlushes(w)
  \/ StallSteps
  \/ WriteController_Stall
  \/ WriteController_Resume

\* a DB with two column families, with and without a max_total_wal_size
PreprocessInit ==
  /\ InitDB /\ fs_error = "IOError" /\ LimiterConstructed(0)
  /\ \E max_wal \in {0, 2} : Opened(FALSE, max_wal)

PreprocessSpec == PreprocessInit /\ [][PreprocessNext]_vars

\* ------------------------------------------------------------ properties
\* sequence numbers the batch of writer w consumes, as its mode counts them
Consumed(w) ==
  IF cbfailed[w] \/ sequence[w] = kMaxSequenceNumber THEN 0
  ELSE IF Route(req[w]) \in {"walonly", "unordered"}
       THEN (IF AssignOrder(req[w]) THEN BatchCnt(req[w]) ELSE 0)
  ELSE IF db.seq_per_batch THEN BatchCnt(req[w])
  ELSE IF req[w].disable_memtable THEN 0
  ELSE req[w].count

SeqRange(w) == sequence[w]..(sequence[w] + Consumed(w) - 1)

\* the write call of w returned OK
ReturnedOk(w) == ret[w] = "OK"

\* w is known to fail: its callback, its own status or its leader's status
Failed(w) ==
  \/ cbfailed[w]
  \/ ~Ok(wstatus[w])
  \/ ~Ok(loc[w].status)
  \/ ret[w] \notin {"", "OK"}

\* the batch of w is part of a WAL record that covers the sequences of w
InWal(w) ==
  \E i \in 1..Len(wal) :
    /\ w \in Range(wal[i].members)
    /\ sequence[w] # kMaxSequenceNumber =>
         /\ wal[i].seq <= sequence[w]
         /\ sequence[w] + Consumed(w) <= wal[i].seq + wal[i].inc

\* the batch of w is in the memtable under its sequence
InMemtable(w) == mem[w] # 0 /\ mem[w] = sequence[w]

SingleQueueDefault ==
  ~db.two_write_queues /\ ~db.unordered_write /\ ~db.enable_pipelined_write

\* writers that returned OK and consumed sequence numbers
Successful(w) == ReturnedOk(w) /\ Consumed(w) > 0

\* w holds sequence numbers and has not failed, returned or still running
Live(w) == ~Failed(w) /\ Consumed(w) > 0

\* w returned OK, consumed sequence numbers and, unless it skips the memtable,
\* its batch is in the memtable
Applied(w) == Successful(w) /\ (req[w].disable_memtable \/ InMemtable(w))

\* applied writers leave no gap, unless a writer that has not failed holds it
Contiguous ==
  \A a, b \in Writers :
    (/\ Applied(a) /\ Applied(b)
     /\ sequence[a] < sequence[b]
     /\ ~\E c \in Writers : /\ Live(c)
                            /\ sequence[a] < sequence[c]
                            /\ sequence[c] < sequence[b])
    => sequence[b] = sequence[a] + Consumed(a)

\* no number between two successful writers is skipped: a writer was assigned
\* it, whatever that writer's call returned
NothingSkipped ==
  \A a, b \in Writers :
    (/\ Successful(a) /\ Successful(b)
     /\ sequence[a] < sequence[b]
     /\ ~\E c \in Writers : /\ Consumed(c) > 0
                            /\ sequence[a] < sequence[c]
                            /\ sequence[c] < sequence[b])
    => sequence[b] = sequence[a] + Consumed(a)

\* the ranges of successful writers do not overlap
NoOverlap ==
  \A a, b \in Writers :
    (a # b /\ Successful(a) /\ Successful(b))
    => SeqRange(a) \cap SeqRange(b) = {}

\* position of w in the order in which writers left their queue
ExitPos(w) == CHOOSE i \in 1..Len(exited) : exited[i] = w

HasExited(w) == w \in Range(exited)

\* C1: every writer whose call returned OK has its batch in the WAL unless
\* disable_wal and in the memtable unless disable_memtable, under the sequence
\* assigned to it
C1_OkWriterLoggedAndApplied ==
  \A w \in Writers :
    ReturnedOk(w) =>
      /\ ~req[w].disable_wal => InWal(w)
      /\ ~req[w].disable_memtable => InMemtable(w)

\* C2 as stated: the sequences of successfully applied writers are strictly
\* increasing and contiguous in every mode, whatever groups failed in between
C2_ContiguousEveryMode == NoOverlap /\ Contiguous

\* C2 amended: the ranges of successful writers never overlap; in single-queue
\* default mode, as long as no recoverable state was written, no number
\* between two successful writers is skipped, though the writer holding it may
\* have reported a failure
C2_ContiguousSingleQueue ==
  /\ NoOverlap
  /\ (SingleQueueDefault /\ rs_mem = {}) => NothingSkipped

\* C2 witness: single-queue default mode, a group failed, and two later
\* writers returned OK with adjacent ranges
C2_Witness ==
  /\ SingleQueueDefault
  /\ \E f \in Writers : ret[f] = "Busy" /\ sequence[f] # kMaxSequenceNumber
  /\ \E a, b \in Writers :
       /\ Applied(a) /\ Applied(b)
       /\ sequence[b] = sequence[a] + Consumed(a)

RecordRange(i) == wal[i].seq..(wal[i].seq + wal[i].inc - 1)

\* C4: a sequence number used by an appended WAL record is never used by a
\* record of a later group, whether the groups succeeded or failed
C4_NoSequenceReuse ==
  \A i, j \in 1..Len(wal) :
    i < j => RecordRange(i) \cap RecordRange(j) = {}

\* C5: in default and pipelined mode every batch of a writer that has not
\* failed and whose sequences are at or below the published last sequence is
\* in the memtable
C5_PublishedImpliesApplied ==
  ~db.unordered_write =>
    \A w \in Writers :
      (/\ ~Failed(w)
       /\ ~req[w].disable_memtable
       /\ sequence[w] # kMaxSequenceNumber
       /\ sequence[w] + req[w].count - 1 <= last_sequence_)
      => InMemtable(w)

\* the reservation counter: last_allocated_sequence_ where the code uses it,
\* the last sequence itself in single-queue mode
LastAllocated ==
  IF db.two_write_queues \/ db.unordered_write
  THEN last_allocated_sequence_ ELSE last_sequence_

\* C6: in every state the published sequence is at most the allocated one
C6_PublishedAtMostAllocated ==
  /\ last_sequence_ <= LastAllocated
  /\ last_published_sequence_ <= LastAllocated

\* C6 witness: two queues, a recoverable state was written and a later
\* WAL-only allocation has not been published
C6_Witness ==
  /\ db.two_write_queues
  /\ rs_mem # {}
  /\ last_sequence_ > 0
  /\ last_sequence_ < last_allocated_sequence_

\* C7: the published last sequence never moves backwards
C7_PublishMonotonic == [][last_sequence_' >= last_sequence_]_vars

\* C7 witness: a recoverable-state write and two group exits each published
C7_Witness ==
  /\ rs_mem # {}
  /\ \E a, b \in Writers :
       /\ a # b /\ HasExited(a) /\ HasExited(b)
       /\ Successful(a) /\ Successful(b)
       /\ sequence[a] < sequence[b]
       /\ \E s \in rs_mem : sequence[a] < s /\ s < sequence[b]
       /\ last_sequence_ >= sequence[b]

\* the largest sequence number assigned to w
LastSeqOf(w) ==
  IF Consumed(w) > 0 THEN sequence[w] + Consumed(w) - 1 ELSE sequence[w]

\* C8 as stated: of two OK writers of one queue, the one that left the queue
\* first has only smaller sequences, writers with disable_memtable included
C8_ExitOrderAllWriters ==
  \A a, b \in Writers :
    (/\ a # b /\ ReturnedOk(a) /\ ReturnedOk(b)
     /\ sequence[a] # kMaxSequenceNumber /\ sequence[b] # kMaxSequenceNumber
     /\ QueueOf(req[a]) = QueueOf(req[b])
     /\ HasExited(a) /\ HasExited(b)
     /\ ExitPos(a) < ExitPos(b))
    => LastSeqOf(a) < sequence[b]

\* C8 amended: the order holds between the writers that consume sequence
\* numbers; a writer that consumes none shares its sequence with its successor
C8_ExitOrderConsumers ==
  \A a, b \in Writers :
    (/\ a # b /\ Successful(a) /\ Successful(b)
     /\ QueueOf(req[a]) = QueueOf(req[b])
     /\ HasExited(a) /\ HasExited(b)
     /\ ExitPos(a) < ExitPos(b))
    => LastSeqOf(a) < sequence[b]

\* C8 witness: two OK writers of one group, the first of them with a batch of
\* more than one record
C8_Witness ==
  \E a, b \in Writers :
    /\ Successful(a) /\ Successful(b)
    /\ Consumed(a) > 1
    /\ ExitPos(a) + 1 = ExitPos(b)
    /\ \E i \in 1..Len(wal) : {a, b} \subseteq Range(wal[i].members)

\* C9: with two queues the records of the WAL are in the order of their
\* sequence numbers: a record starts after everything an earlier one uses
C9_WalOrderIsSequenceOrder ==
  db.two_write_queues =>
    \A i, j \in 1..Len(wal) :
      i < j => wal[i].seq + wal[i].inc <= wal[j].seq

\* C9 witness: records of both queues, each using sequence numbers, the
\* WAL-only one appended between two of the main queue
C9_Witness ==
  /\ db.two_write_queues
  /\ Len(wal) >= 3
  /\ \A i \in 1..3 : wal[i].inc > 0 /\ wal[i].members # <<>>
  /\ QueueOf(req[wal[1].members[1]]) = MainQ
  /\ QueueOf(req[wal[2].members[1]]) = NonMemQ
  /\ QueueOf(req[wal[3].members[1]]) = MainQ

\* a writer's batch is in the memtable only after its pre-release callback ran
WriterCallbackFirst ==
  \A w \in Writers :
    (Route(req[w]) # "pipelined" /\ req[w].pre # "none" /\ mem[w] # 0)
    => prerel[w] = mem[w]

\* C10 as stated: nothing is in a memtable before its pre-release callback
\* was invoked, the cached recoverable state included
C10_CallbackBeforeApply ==
  /\ WriterCallbackFirst
  /\ db.recoverable_cb => rs_mem \subseteq rs_prerel

\* C10 amended: a writer's batch is applied after its pre-release callback;
\* WriteRecoverableState inserts first and invokes the callback before it
\* returns
C10_CallbackBeforeWriterApply ==
  /\ WriterCallbackFirst
  /\ (db.recoverable_cb /\ ~Unbatched) => rs_mem \subseteq rs_prerel

\* C10 witness: a recoverable state got its callback after its insert and a
\* writer with a pre-release callback is in the memtable
C10_Witness ==
  /\ rs_mem # {} /\ rs_mem \subseteq rs_prerel
  /\ \E w \in Writers : req[w].pre = "ok" /\ InMemtable(w) /\ prerel[w] = mem[w]

\* ------------------------------------------------------------ C11
\* the WAL record that carries the batch of w
RecordOf(w) == CHOOSE i \in 1..Len(wal) : w \in Range(wal[i].members)

\* the group of w went through the WAL
Logged(w) == \E i \in 1..Len(wal) : w \in Range(wal[i].members)

\* the WAL durability step of the group of w is over: its record is appended,
\* and on disk when the group's leader asked for sync
Durable(w) ==
  /\ Logged(w)
  /\ req[wal[RecordOf(w)].leader].sync => wal[RecordOf(w)].synced

\* the pre-release callback of w was invoked
CallbackInvoked(w) == prerel[w] # 0

\* a member of the group of w is in the memtable
GroupApplied(w) == \E y \in Range(wal[RecordOf(w)].members) : mem[y] # 0

\* C11: a pre-release callback is invoked only after the WAL durability step of
\* its group (the append, and the fsync when the leader requested sync), and
\* no member of the group is applied to the memtable before every callback of
\* the group was invoked; single-queue mode, two-queue default mode with sync
\* and the WAL-only queue
C11_CallbackAfterDurability ==
  \A w \in Writers :
    /\ (CallbackInvoked(w) /\ ~req[w].disable_wal) => Durable(w)
    /\ (Logged(w) /\ GroupApplied(w) /\ ~cbfailed[w]
          /\ PreReleaseCallbackOf(req[w]) # "none") => CallbackInvoked(w)

\* C11 where it holds: every mode but the default mode on two write queues,
\* whose leader calls SyncWAL after the memtable phase
C11_DurabilityUnlessLateSync ==
  \A w \in Writers :
    ~(db.two_write_queues /\ Route(req[w]) = "default") =>
      /\ (CallbackInvoked(w) /\ ~req[w].disable_wal) => Durable(w)
      /\ (Logged(w) /\ GroupApplied(w) /\ ~cbfailed[w]
            /\ PreReleaseCallbackOf(req[w]) # "none") => CallbackInvoked(w)

\* a callback ran on a record that its group's leader had synced
C11_Witness ==
  \E w \in Writers :
    /\ CallbackInvoked(w) /\ Logged(w)
    /\ req[wal[RecordOf(w)].leader].sync /\ wal[RecordOf(w)].synced
    /\ mem[w] # 0

\* ------------------------------------------------------------ C12
\* the run has no failure but those of pre-commit callbacks
OnlyCallbackFailures ==
  /\ faults = 0
  /\ \A x \in Writers : req[x].pre # "fail" /\ ~req[x].bad_cf

\* C12: a writer whose pre-commit callback failed ends with the callback's
\* status, its batch is in no WAL record and in no memtable and it is assigned
\* no sequence; when nothing else fails, every other writer still returns OK
\* with its batch logged and applied
C12_CallbackFailureIsLocal ==
  \A w \in Writers :
    /\ cbfailed[w] =>
         /\ ~Logged(w)
         /\ mem[w] = 0
         /\ sequence[w] = kMaxSequenceNumber
         /\ OnlyCallbackFailures => ret[w] \in {"", "Busy"}
    /\ (OnlyCallbackFailures /\ ~cbfailed[w] /\ ret[w] # ""
         /\ Ok(Validate(req[w]))) =>
         /\ ReturnedOk(w)
         /\ ~req[w].disable_wal => InWal(w)
         /\ ~req[w].disable_memtable => InMemtable(w)

\* a writer returned OK from a group in which another writer's callback failed
C12_Witness ==
  \E w, x \in Writers :
    /\ cbfailed[w] /\ ret[w] = "Busy"
    /\ ReturnedOk(x) /\ InMemtable(x)
    /\ HasExited(w) /\ HasExited(x)
    /\ ExitPos(x) = ExitPos(w) + 1
    /\ ~Logged(w) /\ Logged(x) /\ wal[RecordOf(x)].leader = w

\* ------------------------------------------------------------ C13
\* C13: a write call that begins after a background error stopped the DB
\* returns a non-OK status, its batch is in no WAL record and in no memtable
\* and it is assigned no sequence, in every mode and on either queue
C13_StoppedDBRejectsWrites ==
  \A w \in Writers :
    called_stopped[w] =>
      /\ ~ReturnedOk(w)
      /\ ~Logged(w)
      /\ mem[w] = 0
      /\ sequence[w] = kMaxSequenceNumber

\* C13 on the queue whose leaders run PreprocessWrite
C13_StoppedDBRejectsMainQueue ==
  \A w \in Writers :
    (called_stopped[w] /\ QueueOf(req[w]) = MainQ) =>
      /\ ~ReturnedOk(w)
      /\ ~Logged(w)
      /\ mem[w] = 0
      /\ sequence[w] = kMaxSequenceNumber

\* a write call that began on a stopped DB returned the background error
C13_Witness ==
  \E w \in Writers :
    called_stopped[w] /\ ret[w] = bg_error.st /\ QueueOf(req[w]) = MainQ

\* ------------------------------------------------------------ C14
\* a memtable apply returned a non-OK status into Writer::status of w (the
\* leader of a serial group holds the status of the group's InsertInto)
InsertFailed(w) == wstatus[w] = "InvalidArgument"

\* the group of w was exited, or the call of w returned
GroupExitedOrReturned(w) ==
  \/ ret[w] # ""
  \/ Route(req[w]) # "unordered" /\ wstate[w] = "COMPLETED"

\* C14: when a memtable apply returned non-OK, a background error with reason
\* MemTable is recorded by the time the group is exited or the call returns,
\* in serial and parallel default groups, in pipelined and in unordered mode
C14_ApplyFailureRecorded ==
  \A w \in Writers :
    (InsertFailed(w) /\ GroupExitedOrReturned(w))
      => "MemTable" \in bg_error.reasons

\* C14 in default mode, where every exit path calls MemTableInsertStatusCheck
C14_ApplyFailureRecordedDefault ==
  \A w \in Writers :
    (InsertFailed(w) /\ GroupExitedOrReturned(w) /\ Route(req[w]) = "default")
      => "MemTable" \in bg_error.reasons

\* a failed apply of a parallel follower was recorded with reason MemTable
C14_Witness ==
  \E w \in Writers :
    /\ InsertFailed(w) /\ ret[w] # "" /\ req[w].bad_cf
    /\ "MemTable" \in bg_error.reasons

\* ------------------------------------------------------------ C15
\* the write call of w returned after a WAL append, sync or directory sync of
\* the group it led failed
WalFailedAndReturned(w) == ~Ok(io_failed[w]) /\ ret[w] # ""

\* C15: when a group's WAL append, fsync or directory sync fails, the leader's
\* write call returns that error, and a background error is recorded if and
\* only if paranoid_checks is on and the error is neither Busy nor Incomplete
C15_WalFailureReturnedAndRecorded ==
  \A w \in Writers :
    WalFailedAndReturned(w) =>
      /\ ret[w] = io_failed[w]
      /\ ("WriteCallback" \in bg_error.reasons)
           <=> (db.paranoid_checks /\ io_failed[w] # "Busy"
                  /\ ~IsIncomplete(io_failed[w]))

\* C15, the returned status: when a group's WAL append, fsync or directory
\* sync fails, the leader's write call returns that error
C15_WalFailureReturned ==
  \A w \in Writers : WalFailedAndReturned(w) => ret[w] = io_failed[w]

\* C15 as IOStatusCheck and the status checks of the three write paths have
\* it: outside the late sync of two write queues, the status is returned, and
\* it is recorded when paranoid_checks is on or the status is IOFenced,
\* unless the leader's own callback failed
C15_WalFailureSingleQueue ==
  \A w \in Writers :
    (WalFailedAndReturned(w)
       /\ ~(db.two_write_queues /\ req[w].sync /\ QueueOf(req[w]) = MainQ)) =>
      /\ ret[w] = io_failed[w]
      /\ ~cbfailed[w] =>
           (("WriteCallback" \in bg_error.reasons)
              <=> (db.paranoid_checks \/ io_failed[w] = "IOFenced"))

\* a failed append was returned by the leader and recorded
C15_Witness ==
  \E w \in Writers :
    /\ WalFailedAndReturned(w) /\ ret[w] = io_failed[w]
    /\ db.paranoid_checks /\ "WriteCallback" \in bg_error.reasons

\* ------------------------------------------------------------ C16
\* DelayWrite refused the write of w: Incomplete("Write stall") is its local
\* status or the status its call returned
StallRefused(w) ==
  \/ loc[w].status = "Incomplete: Write stall"
  \/ ret[w] = "Incomplete: Write stall"

\* a no_slowdown leader is in PreprocessWrite on a healthy DB while the write
\* controller is stopped or delays, and takes a step of its call
StalledStep(w) ==
  /\ Preprocesses(w) /\ ~IsStopped /\ NeedsDelay /\ req[w].no_slowdown
  /\ pc'[w] # pc[w] \/ rs_mem' # rs_mem

\* the step is the memtable switch of PreprocessWrite writing the cached
\* recoverable state, which comes before the controller is checked
SwitchStep(w) == rs_mem' # rs_mem \/ pc[w] = "rs_callback" \/ pc'[w] = "rs_callback"

\* the step leaves the sequences, the WAL and the memtables alone, gives w no
\* sequence and does not make it sleep or wait
NothingConsumed(w) ==
  /\ delay'[w] = "none"
  /\ sequence'[w] = kMaxSequenceNumber
  /\ UNCHANGED <<last_allocated_sequence_, last_sequence_,
                 last_published_sequence_, wal, mem, rs_mem>>

\* a refused no_slowdown leader goes on to return, consuming nothing
RefusedReturns(w) ==
  (req[w].no_slowdown /\ loc[w].status = "Incomplete: Write stall"
     /\ pc'[w] # pc[w])
    => /\ NothingConsumed(w)
       /\ pc'[w] = "done" => ret'[w] = "Incomplete: Write stall"

\* C16: when the write controller is stopped or requires a positive delay, a
\* write with no_slowdown returns Incomplete("Write stall") without sleeping
\* or waiting, consumes no sequence number (last-allocated and last-published
\* unchanged) and appends nothing to the WAL
C16_NoSlowdownFailsFast ==
  [][\A w \in Writers :
       /\ StalledStep(w) => StallRefused(w)' /\ NothingConsumed(w)
       /\ RefusedReturns(w)]_vars

\* C16 amended: the same, except that a memtable switch inside the same
\* PreprocessWrite may first write the cached recoverable state, which
\* advances last-allocated and last-published; the write itself is then
\* refused without a sequence, a WAL record or a memtable insert
C16_NoSlowdownFailsFastAfterSwitch ==
  [][\A w \in Writers :
       /\ (StalledStep(w) /\ ~SwitchStep(w))
            => StallRefused(w)' /\ NothingConsumed(w)
       /\ (StalledStep(w) /\ SwitchStep(w))
            => /\ delay'[w] = "none" /\ sequence'[w] = kMaxSequenceNumber
               /\ UNCHANGED <<wal, mem, loc, ret>>
       /\ RefusedReturns(w)]_vars

\* a no_slowdown writer was refused, with nothing of its own consumed, in a
\* run whose memtable switch wrote the cached recoverable state
C16_Witness ==
  \E w \in Writers :
    /\ req[w].no_slowdown /\ ret[w] = "Incomplete: Write stall"
    /\ sequence[w] = kMaxSequenceNumber /\ ~Logged(w) /\ mem[w] = 0
    /\ delay[w] = "none"
    /\ rs_mem # {} /\ last_sequence_ > 0

StateGraph ==
  { <<"INIT", "GROUP_LEADER">>, <<"INIT", "LOCKED_WAITING">>,
    <<"GROUP_LEADER", "MEMTABLE_WRITER_LEADER">>,
    <<"GROUP_LEADER", "PARALLEL_MEMTABLE_WRITER">>,
    <<"MEMTABLE_WRITER_LEADER", "PARALLEL_MEMTABLE_WRITER">>,
    <<"LOCKED_WAITING", "PARALLEL_MEMTABLE_WRITER">>,
    <<"GROUP_LEADER", "COMPLETED">>,
    <<"MEMTABLE_WRITER_LEADER", "COMPLETED">>,
    <<"PARALLEL_MEMTABLE_WRITER", "COMPLETED">>,
    <<"LOCKED_WAITING", "COMPLETED">> }

\* a parked follower is promoted when the group ahead of it exits: to leader
\* of the queue, or in pipelined mode to leader of the memtable writers
Promotions ==
  { <<"LOCKED_WAITING", "GROUP_LEADER">>,
    <<"LOCKED_WAITING", "MEMTABLE_WRITER_LEADER">> }

\* every state change of every writer is an edge of graph; memtable
\* leadership exists only in pipelined mode and comes after the WAL phase of
\* the writer's group; a writer of WriteImplWALOnly is never a parallel
\* memtable writer
FollowsGraph(graph) ==
  \A w \in Writers :
    /\ wstate'[w] # wstate[w] => <<wstate[w], wstate'[w]>> \in graph
    /\ (wstate'[w] # wstate[w] /\ wstate'[w] = "MEMTABLE_WRITER_LEADER")
         => /\ db.enable_pipelined_write
            /\ pc[w] \in {"pl_wal", "wait"}
            /\ sequence'[w] # kMaxSequenceNumber
    /\ wstate'[w] = "PARALLEL_MEMTABLE_WRITER"
         => Route(req'[w]) \notin {"walonly", "unordered"}

\* C19: every state change of every writer follows the transition graph:
\* INIT to GROUP_LEADER or LOCKED_WAITING; GROUP_LEADER to
\* MEMTABLE_WRITER_LEADER only in pipelined mode after the WAL phase; leader
\* or LOCKED_WAITING to PARALLEL_MEMTABLE_WRITER; leader, parallel writer or
\* LOCKED_WAITING to COMPLETED; no other transition occurs, COMPLETED is never
\* left, and a WAL-only writer is never PARALLEL_MEMTABLE_WRITER
C19_TransitionGraph == [][FollowsGraph(StateGraph)]_vars

\* C19 amended: the same graph with the two promotions of a parked follower,
\* LOCKED_WAITING to GROUP_LEADER and, in pipelined mode after the WAL phase,
\* LOCKED_WAITING to MEMTABLE_WRITER_LEADER
C19_TransitionGraphWithPromotion ==
  [][FollowsGraph(StateGraph \cup Promotions)]_vars

\* a writer logged as a follower of another leader's WAL group leads the
\* memtable writers: it was promoted from LOCKED_WAITING
C19_Witness ==
  \E w \in Writers :
    /\ wstate[w] = "MEMTABLE_WRITER_LEADER"
    /\ \E i \in 1..Len(wal) :
         wal[i].leader # w /\ w \in Range(wal[i].members)

\* ------------------------------------------------------------ C20
\* C20: under fair scheduling, and with a write controller that does not stay
\* stopped for ever, every writer that joined a writer queue eventually is
\* COMPLETED with a final status and its write call has returned; no follower
\* stays parked in LOCKED_WAITING or PARALLEL_MEMTABLE_WRITER
C20_EveryWriterCompletes ==
  \A w \in Writers :
    (wstate[w] # "INIT") ~> (wstate[w] = "COMPLETED" /\ ret[w] # "")

\* a leader that waited out a stall in DelayWrite committed its group: it and
\* a follower that was parked behind it returned
C20_Witness ==
  \E w, x \in Writers :
    /\ w # x /\ delay[w] = "done"
    /\ wstate[w] = "COMPLETED" /\ ret[w] = "OK"
    /\ wstate[x] = "COMPLETED" /\ ret[x] = "OK"
    /\ \E i \in 1..Len(wal) :
         wal[i].leader = w /\ x \in Range(wal[i].members)

\* ------------------------------------------------------------ C21
\* the tokens GetToken returned that are not destroyed yet
LiveTokens == {t \in LThreads : lt[t].token # "none"}

\* C21: for any interleaving of get_token, token destruction, set_max and
\* reset_max the outstanding count never exceeds the current non-negative
\* cap unless a token was obtained with force, and it is 0 whenever all
\* tokens have been destroyed
C21_CountWithinCurrentCap ==
  /\ (max_outstanding_tasks_ >= 0 /\ ~lh.forced)
       => outstanding_tasks_ <= max_outstanding_tasks_
  /\ LiveTokens = {} => outstanding_tasks_ = 0

\* C21 amended: the count is bounded by the highest cap the limiter has had
\* (a lowered cap does not revoke tokens, and GetToken works with the cap it
\* loaded on entry), unless it was unlimited or a forced token is live; with
\* a cap that was never changed it is bounded by the current cap; it is 0
\* whenever all tokens have been destroyed
C21_CountWithinHighestCap ==
  /\ ~lh.unlimited
       => Cardinality({t \in LiveTokens : lt[t].token = "plain"}) <= lh.highest
  /\ (~lh.unlimited /\ \A t \in LiveTokens : lt[t].token = "plain")
       => outstanding_tasks_ <= lh.highest
  /\ (lh.sets = 0 /\ max_outstanding_tasks_ >= 0
         /\ \A t \in LiveTokens : lt[t].token = "plain")
       => outstanding_tasks_ <= max_outstanding_tasks_
  /\ LiveTokens = {} => outstanding_tasks_ = 0

\* after a change of the cap the limiter is full of unforced tokens while a
\* further GetToken is in its loop
C21_Witness ==
  /\ lh.sets > 0 /\ ~lh.unlimited /\ ~lh.forced
  /\ lh.highest > 1 /\ outstanding_tasks_ = lh.highest
  /\ \E t \in LThreads : lt[t].pc = "loop" /\ ~lt[t].force

\* ------------------------------------------------------------ C22
\* C22: the outstanding count equals the number of live tokens (returned and
\* not yet destroyed): a successful get_token increments it by exactly one,
\* a token destruction decrements it by exactly one, a throttled get_token
\* leaves it unchanged, and it is never negative
C22_CountIsLiveTokens ==
  [][/\ outstanding_tasks_ = Cardinality(LiveTokens)
     /\ outstanding_tasks_' = Cardinality(LiveTokens')
     /\ outstanding_tasks_' >= 0
     /\ \A t \in LThreads :
          /\ (lt[t].token = "none" /\ lt'[t].token # "none")
               => outstanding_tasks_' = outstanding_tasks_ + 1
          /\ (lt[t].token # "none" /\ lt'[t].token = "none")
               => outstanding_tasks_' = outstanding_tasks_ - 1
          /\ (lt[t].pc = "loop" /\ lt'[t].pc = "idle")
               => outstanding_tasks_' = outstanding_tasks_]_vars

\* two tokens are live after four calls: the other two calls were throttled
\* or their tokens are destroyed
C22_Witness ==
  /\ lh.gets = MaxGets /\ outstanding_tasks_ = 2
  /\ Cardinality(LiveTokens) = 2
  /\ \A t \in LThreads : lt[t].pc \in {"idle", "holding"}

\* ------------------------------------------------------------ C23
\* C23: GetToken(force) returns a token if and only if force is true, or the
\* cap it loaded is negative, or the outstanding count it observed at the
\* successful compare-and-swap is strictly below that cap; with cap 0 and
\* force false it never returns a token, with force true or a negative cap
\* it never returns nullptr, whatever other GetToken calls and token
\* destructions interleave (the loaded cap is the limiter's cap as long as
\* no SetMaxOutstandingTask ran)
C23_TokenIffBelowCap ==
  [][\A t \in LThreads :
       (lt[t].pc = "loop" /\ lt'[t].pc # "loop") =>
          /\ lt'[t].token # "none"
               <=> (lt[t].force \/ lt[t].limit < 0 \/ lt[t].tasks < lt[t].limit)
          /\ lt'[t].token # "none"
               => /\ outstanding_tasks_ = lt[t].tasks
                  /\ outstanding_tasks_' = lt[t].tasks + 1
          /\ (lt[t].limit = 0 /\ ~lt[t].force) => lt'[t].token = "none"
          /\ (lt[t].force \/ lt[t].limit < 0) => lt'[t].token # "none"
          /\ lh.sets = 0 => lt[t].limit = max_outstanding_tasks_]_vars

\* the cap was never changed and is reached by a live token while another
\* unforced call has observed the full count and is about to return
C23_Witness ==
  /\ lh.sets = 0 /\ max_outstanding_tasks_ = 1 /\ outstanding_tasks_ = 1
  /\ \E t, u \in LThreads :
       /\ lt[t].token = "plain"
       /\ lt[u].pc = "loop" /\ ~lt[u].force
       /\ lt[u].limit = 1 /\ lt[u].tasks = 1

\* ------------------------------------------------------------ C24
\* the sequences an immutable memtable holds: those of the batches and of
\* the recoverable state inserted before it was sealed
MemLastSeq(x) ==
  mem[x] + (IF db.seq_per_batch THEN BatchCnt(req[x]) ELSE req[x].count) - 1

ImmSeqs(cf, i) ==
  {mem[x]..MemLastSeq(x) : x \in cfd[cf].imm[i].writers}
    \cup {{q} : q \in cfd[cf].imm[i].rs}

C26_UnorderedApplyAfterPublish ==
  [][\A x \in Writers :
       (Route(req[x]) = "unordered" /\ mem'[x] # mem[x]) =>
          /\ pc[x] = "um_apply"
          /\ x \in Range(exited)
          /\ ~cbfailed[x]
          /\ mem'[x] = sequence[x]
          /\ last_sequence_ >= LastSeqOf(x)
          /\ ~req[x].disable_wal =>
               \E i \in 1..Len(wal) :
                 /\ x \in Range(wal[i].members)
                 /\ io_failed[wal[i].leader] = "OK"
                 /\ last_sequence_ >= wal[i].seq + wal[i].inc - 1]_vars

\* a follower of an unordered group of two has applied its batch, which the
\* leader logged in one record with its own
C26_Witness ==
  \E x \in Writers : \E i \in 1..Len(wal) :
    /\ Route(req[x]) = "unordered" /\ mem[x] # 0
    /\ x \in Range(wal[i].members) /\ wal[i].leader # x

\* ------------------------------------------------------------ C27
\* C27: every failing return of the memtable switch (failure while writing
\* the cached recoverable state, creating the new WAL file, or flushing the
\* previous log writer's buffer) has recorded a background error, has deleted
\* every half-constructed object, and has left the memtables of the column
\* families, the active WAL number and the WAL lists unchanged
C27_FailedSwitchCleansUp ==
  [][\A w \in Writers :
       (Len(sw'[w]) = Len(sw[w]) + 1 /\ ~Ok(sw'[w][Len(sw'[w])].status)) =>
          LET r == sw'[w][Len(sw'[w])]
          IN /\ ~Ok(bg_error'.st)
             /\ "MemTable" \in bg_error'.reasons
             /\ r.deleted = r.constructed
             /\ cfd' = cfd
             /\ logfile_number_' = logfile_number_
             /\ logs_' = logs_
             /\ [i \in 1..Len(alive_log_files_') |->
                   alive_log_files_'[i].number]
                  = [i \in 1..Len(alive_log_files_) |->
                       alive_log_files_[i].number]]_vars

\* the same for the two I/O failures alone: CreateWAL and WriteBuffer
C27_IoFailureCleansUp ==
  [][\A w \in Writers :
       (/\ Len(sw'[w]) = Len(sw[w]) + 1
        /\ ~Ok(sw'[w][Len(sw'[w])].status)
        /\ sw'[w][Len(sw'[w])].kind # "WriteRecoverableState") =>
          LET r == sw'[w][Len(sw'[w])]
          IN /\ ~Ok(bg_error'.st)
             /\ "MemTable" \in bg_error'.reasons
             /\ r.deleted = r.constructed
             /\ cfd' = cfd
             /\ logfile_number_' = logfile_number_
             /\ logs_' = logs_
             /\ Len(alive_log_files_') = Len(alive_log_files_)]_vars

\* a memtable switch has returned the failure of WriteRecoverableState and
\* the DB has no background error
C27_Witness ==
  \E w \in Writers : \E i \in 1..Len(sw[w]) :
    /\ sw[w][i].kind = "WriteRecoverableState"
    /\ ~Ok(sw[w][i].status)
    /\ Ok(bg_error.st)

\* ------------------------------------------------------------ C28
\* max_total_wal_size, or 4 times the total memtable reservation when it is
\* not configured
WalSizeThreshold ==
  IF max_total_wal_size = 0 THEN 4 * max_total_in_memory_state_
  ELSE max_total_wal_size

\* leader w ends its PreprocessWrite in this step, having called neither
\* DelayWrite nor a memtable switch
PreprocessedUnswitched(w) ==
  /\ Preprocesses(w)
  /\ pc'[w] \notin {"enter", "wo_enter", "pl_enter", "rs_callback"}
  /\ delay[w] = "none"
  /\ sw[w] = <<>>
  /\ ~IsStopped

\* leader w returns from SwitchWAL in this step
SwitchWALReturns(w) ==
  /\ Len(sw'[w]) = Len(sw[w]) + 1
  /\ sw'[w][Len(sw'[w])].kind = "SwitchWAL"

\* what a performed WAL switch leaves: a new active WAL number, the memtable
\* of every column family that depended on the oldest WAL sealed, and a
\* flush request for it
WALSwitched(w) ==
  LET r == sw'[w][Len(sw'[w])]
  IN /\ logfile_number_' > logfile_number_
     /\ logfile_number_' = logs_'[Len(logs_')]
     /\ alive_log_files_'[Len(alive_log_files_')].number = logfile_number_'
     /\ r.cfds = {c \in ColumnFamilySet :
                    cfd[c].log_number <= alive_log_files_[1].number}
     /\ r.cfds # {}
     /\ \A c \in r.cfds :
          /\ Len(cfd'[c].imm) = Len(cfd[c].imm) + 1
          /\ cfd'[c].flush_requested

\* the records led by a leader that switched the WAL are in the new WAL only
OnlyInNewWAL ==
  \A i \in 1..Len(wal) : \A j \in 1..Len(sw[wal[i].leader]) :
    LET r == sw[wal[i].leader][j]
    IN /\ Ok(r.status)
       /\ (r.kind = "SwitchWAL" => wal[i].log > r.from_log)

Leaders(q) ==
  {w \in Writers :
     /\ pc[w] \notin {"idle", "done"}
     /\ QueueOf(req[w]) = q
     /\ \/ pc[w] \in {"enter", "wal", "prerelease", "apply", "papply",
                       "finish", "wo_enter", "wo_wal", "wo_finish",
                       "pl_enter", "pl_wal", "rs_callback"}
        \/ pc[w] = "lreturn" /\ wstate[w] # "COMPLETED"}

\* C29: at any moment at most one writer per queue holds group leadership
\* for the WAL phase; only that writer runs preprocess, switches memtables,
\* assigns sequences or appends to the WAL of its queue, and in single-queue
\* mode every update of the last sequence happens under the one leader
C29_OneLeaderPerQueue ==
  [][/\ \A q \in {MainQ, NonMemQ} : Cardinality(Leaders(q)') <= 1
     /\ Len(wal') > Len(wal) =>
          LET a == wal'[Len(wal')].leader
          IN Leaders(QueueOf(req[a])) = {a}
     /\ \A w \in Writers :
          /\ (sw'[w] # sw[w] \/ (Preprocesses(w) /\ pc'[w] # pc[w]))
               => Leaders(MainQ) = {w}
          /\ (pc[w] # "idle" /\ sequence'[w] # sequence[w])
               => \E a \in Writers : /\ Leaders(QueueOf(req[w])) = {a}
                                      /\ w \in Range(group[a])
                                               \cup Range(group'[a])
     /\ (/\ ~db.two_write_queues /\ ~db.enable_pipelined_write
         /\ ~db.unordered_write
         /\ last_sequence_' # last_sequence_)
          => Cardinality(Leaders(MainQ)) = 1]_vars

\* a leader is in its WAL phase while another writer of the same queue, not
\* of its group, waits behind it
C29_Witness ==
  \E a, x \in Writers :
    /\ pc[a] \in {"wal", "wo_wal", "pl_wal"}
    /\ Leaders(QueueOf(req[a])) = {a}
    /\ pc[x] = "wait" /\ wstate[x] = "LOCKED_WAITING"
    /\ QueueOf(req[x]) = QueueOf(req[a])
    /\ x \notin Range(group[a])

\* ------------------------------------------------------------ C30
\* member y of the parallel group of leader l has called
\* CompleteParallelMemTableWriter
CompletedParallel(y, l) ==
  IF y = l THEN pc[l] = "lreturn" ELSE pc[y] = "await"

\* member x of the parallel group of leader l calls
\* CompleteParallelMemTableWriter in this step
CompletesParallel(x, l) ==
  /\ ~db.enable_pipelined_write
  /\ loc[l].in_parallel_group
  /\ x \in Range(group[l])
  /\ pc[x] = (IF x = l THEN "finish" ELSE "fcomplete")
  /\ pc'[x] # pc[x]

\* what a call of CompleteParallelMemTableWriter by member x of the group of
\* leader l does: the caller wins exactly when every other member completed
\* before it; the winner exits the whole group, every apply being done, and
\* publishes; a loser changes nothing and waits
ParallelCompletion(l, x, published) ==
  LET g == Range(group[l])
      won == exited' # exited
  IN /\ running'[l] = running[l] - 1
     /\ won <=> \A y \in g \ {x} : CompletedParallel(y, l)
     /\ won =>
          /\ exited' = exited \o group[l]
          /\ \A y \in g : wstate'[y] = "COMPLETED"
          /\ \A y \in g :
               (/\ Ok(wstatus[y]) /\ ~cbfailed[y]
                /\ ~req[y].disable_memtable) => mem[y] = sequence[y]
          /\ published
     /\ ~won =>
          /\ last_sequence_' = last_sequence_
          /\ queue' = queue
          /\ wstate'[x] # "COMPLETED"

\* no writer leaves a group twice
ExitedOnce == \A i, j \in 1..Len(exited) : exited[i] = exited[j] => i = j

\* C30: in a parallel memtable-write group exactly one participant receives
\* true from CompleteParallelMemTableWriter, the one whose completion is last
\* among all members, the leader included; the group's last sequence is
\* published and the group is exited exactly once, and only after every
\* member has finished its memtable apply
C30_LastParallelWriterExits ==
  [][/\ \A l, x \in Writers :
          CompletesParallel(x, l) =>
            ParallelCompletion(l, x, last_sequence_' = loc[l].last_sequence)
     /\ ExitedOnce']_vars

\* the same, with the publication as the code does it: a winning follower
\* always publishes, a winning leader only when its late SyncWAL did not fail
C30_PublishedUnlessLeaderFailed ==
  [][/\ \A l, x \in Writers :
          CompletesParallel(x, l) =>
            ParallelCompletion(l, x,
              last_sequence_' = IF x = l /\ faults' # faults
                                THEN last_sequence_
                                ELSE loc[l].last_sequence)
     /\ ExitedOnce']_vars

\* the leader completed last, its late SyncWAL failed, and the group was
\* exited with a follower's batch in the memtable and the group's last
\* sequence not published
C30_Witness ==
  \E l, x \in Writers :
    /\ x # l /\ ~db.enable_pipelined_write
    /\ loc[l].in_parallel_group
    /\ pc[l] = "lreturn" /\ wstate[l] = "COMPLETED" /\ running[l] = 0
    /\ ~Ok(io_failed[l])
    /\ x \in Range(exited) /\ wstate[x] = "COMPLETED"
    /\ mem[x] # 0 /\ mem[x] = sequence[x]
    /\ last_sequence_ < sequence[x]

\* ------------------------------------------------------------ C31
\* the group of leader w has to be applied by the leader alone: one writer,
\* or no concurrent memtable writes, or a Merge in a batch that passed its
\* callback and goes to the memtable
MustApplySerially(w) ==
  \/ Len(group[w]) = 1
  \/ ~db.allow_concurrent_memtable_write
  \/ \E x \in Range(group[w]) :
       ~cbfailed[x] /\ ~req[x].disable_memtable /\ req[x].has_merge

\* C31: in default mode the leader applies every batch of the group serially
\* if the group has one writer, or concurrent memtable writes are not
\* allowed, or a member batch that passed its callback and writes to the
\* memtable holds a merge; otherwise, and only then, the followers are
\* launched as parallel memtable writers and the leader applies its own
\* batch only
C31_SerialUnlessParallelAllowed ==
  [][\A w \in Writers :
       /\ (pc[w] = "apply" /\ pc'[w] # "apply") =>
            LET g == Range(group[w])
            IN IF MustApplySerially(w)
               THEN /\ wstate' = wstate
                    /\ pc'[w] = "finish"
                    /\ \/ ~Ok(wstatus'[w])
                       \/ \A x \in g :
                            (~cbfailed[x] /\ ~req[x].disable_memtable)
                              => mem'[x] = sequence[x]
               ELSE /\ \A x \in g \ {w} :
                         wstate'[x] = "PARALLEL_MEMTABLE_WRITER"
                    /\ running'[w] = Len(group[w])
                    /\ pc'[w] = "papply"
                    /\ mem' = mem
       /\ (pc[w] = "papply" /\ pc'[w] # "papply") =>
            /\ ~MustApplySerially(w)
            /\ \A x \in Writers \ {w} : mem'[x] = mem[x]]_vars

\* a leader has applied the batches of a group of several writers by itself,
\* concurrent memtable writes being allowed, because one of them holds a merge
C31_Witness ==
  \E w, x \in Writers :
    /\ db.allow_concurrent_memtable_write
    /\ pc[w] = "finish" /\ x # w /\ x \in Range(group[w])
    /\ ~loc[w].in_parallel_group
    /\ req[x].has_merge /\ ~cbfailed[x]
    /\ wstate[x] = "LOCKED_WAITING"
    /\ mem[x] = sequence[x] /\ mem[w] = sequence[w] /\ mem[w] # 0

\* ------------------------------------------------------------ C32
\* the sequence numbers the batch of x takes from its default-mode group:
\* its record count when its callback passed and it writes to the memtable,
\* its batch count under seq_per_batch
GroupShare(x) ==
  IF cbfailed[x] THEN 0
  ELSE IF db.seq_per_batch THEN req[x].batch_cnt
  ELSE IF req[x].disable_memtable THEN 0
  ELSE req[x].count

\* what the writers ahead of position i of group g take together
SharesBefore(g, i) ==
  SumOver([x \in Writers |-> GroupShare(x)], {g[j] : j \in 1..(i - 1)})

\* C32: for every group in default mode the last allocated sequence advances
\* by the total record count of the member batches whose callback passed and
\* that write to the memtable (by the sum of their batch counts under
\* seq_per_batch), and every writer that is given a sequence gets the group
\* base plus what the earlier writers of the group consume, so that the
\* ranges tile [base, base + amount - 1]
C32_GroupSequencesTile ==
  [][\A w \in Writers :
       LET g == group[w]
           amount == SharesBefore(g, Len(g) + 1)
       IN /\ (pc[w] = "wal" /\ pc'[w] # "wal") =>
               /\ loc[w].seq_inc = amount
               /\ loc'[w].last_sequence
                    = (IF db.two_write_queues THEN last_allocated_sequence_
                       ELSE last_sequence_) + amount
               /\ db.two_write_queues =>
                    last_allocated_sequence_'
                      = last_allocated_sequence_ + amount
          /\ (pc[w] = "prerelease" /\ pc'[w] # "prerelease"
                /\ Ok(loc[w].status)) =>
               LET base == loc[w].last_sequence - amount + 1
               IN \A i \in 1..Len(g) :
                    (/\ ~cbfailed[g[i]]
                     /\ \A j \in 1..(i - 1) :
                          cbfailed[g[j]] \/ req[g[j]].pre # "fail") =>
                       /\ sequence'[g[i]] = base + SharesBefore(g, i)
                       /\ sequence'[g[i]] + GroupShare(g[i])
                            <= base + amount
          /\ (pc[w] = "finish" /\ pc'[w] # "finish" /\ exited' # exited
                /\ ~db.two_write_queues /\ Ok(loc'[w].status)
                /\ ~loc[w].in_parallel_group) =>
               last_sequence_' = last_sequence_ + amount]_vars

\* a group of three has its sequences assigned: the second writer's callback
\* failed and takes nothing, the third follows the first at once
C32_Witness ==
  \E w \in Writers :
    /\ pc[w] \in {"apply", "papply", "finish"}
    /\ Len(group[w]) = 3
    /\ ~cbfailed[group[w][1]] /\ cbfailed[group[w][2]]
    /\ ~cbfailed[group[w][3]]
    /\ GroupShare(group[w][1]) = MaxCount
    /\ sequence[group[w][3]] = sequence[w] + MaxCount
    /\ sequence[w] # kMaxSequenceNumber

\* ------------------------------------------------------------ C33
\* the writers of g whose callback did not fail, in group order
NonFailed(g) ==
  [i \in 1..Cardinality({j \in 1..Len(g) : ~cbfailed[g[j]]}) |->
     g[CHOOSE j \in 1..Len(g) :
         /\ ~cbfailed[g[j]]
         /\ Cardinality({k \in 1..j : ~cbfailed[g[k]]}) = i]]

\* the first sequence number of the group a WAL leader is writing: what
\* follows the write thread's, the published or the allocated last sequence
GroupBase(w) ==
  IF pc[w] = "pl_wal" THEN wt_last_sequence - loc[w].seq_inc + 1
  ELSE IF pc[w] = "wal" /\ ~db.two_write_queues THEN last_sequence_ + 1
  ELSE last_allocated_sequence_ + 1

\* C33: for every group written to the WAL, a single writer whose callback
\* passed and whose batch has no WAL termination point has its own batch
\* appended; otherwise the record is the scratch batch holding exactly the
\* writers whose callback did not fail, in group order, stamped with the
\* group's base sequence; the scratch batch is empty after the append and the
\* count of WAL writers is the number of non-failed writers
C33_MergedBatchIsGroup ==
  [][/\ tmp_batch_' = <<>>
     /\ Len(wal') > Len(wal) =>
          LET rec == wal'[Len(wal')]
              w == rec.leader
              g == group[w]
          IN /\ g # <<>> /\ g[1] = w
             /\ IF Len(g) = 1 /\ ~cbfailed[w] /\ ~req[w].wal_term
                THEN rec.merged = "batch" /\ rec.contents = <<w>>
                ELSE /\ rec.merged = "tmp_batch"
                     /\ rec.contents = NonFailed(g)
             /\ rec.seq = GroupBase(w)
             /\ rec.write_with_wal = Len(NonFailed(g))]_vars

\* a group of three is written: the leader's batch has a WAL termination
\* point, the second writer's callback failed, and the record holds the first
\* and the third writer
C33_Witness ==
  \E w \in Writers :
    /\ pc[w] = "prerelease" /\ Len(group[w]) = 3 /\ wal # <<>>
    /\ req[w].wal_term /\ cbfailed[group[w][2]] /\ ~cbfailed[group[w][3]]
    /\ wal[Len(wal)].leader = w
    /\ wal[Len(wal)].contents = <<w, group[w][3]>>
    /\ wal[Len(wal)].write_with_wal = 2
    /\ tmp_batch_ = <<>>

\* ------------------------------------------------------------ C39
\* w returned OK from a write with the WAL enabled, its callback passed and
\* its batch is in a record of the WAL
ReturnedLogged(w) ==
  ReturnedOk(w) /\ ~req[w].disable_wal /\ ~cbfailed[w] /\ Logged(w)

\* C39: for every writer that returns OK from a write with the WAL enabled
\* and whose callback did not fail, the log number recorded on the writer and
\* the one reported through log_used equal the number of the WAL that was
\* active when its group's record was appended, for leaders and followers,
\* for groups in which one member's callback passed and for single writers
\* whose batch has a WAL termination point
C39_LogUsedIsAppendedWal ==
  \A w \in Writers :
    ReturnedLogged(w) =>
      /\ log_used[w] = wal[RecordOf(w)].log
      /\ log_used_out[w] = wal[RecordOf(w)].log

\* what the code keeps: the log number is recorded on the writer when the
\* leader's own batch was appended or more than one batch was merged, the
\* leader's caller is always told the WAL of the append, and a follower is
\* told what its writer holds, outside the pipelined path
C39_LogUsedWhenStamped ==
  \A w \in Writers :
    ReturnedLogged(w) =>
      LET rec == wal[RecordOf(w)]
      IN /\ log_used[w] = IF rec.merged = "batch" \/ rec.write_with_wal > 1
                          THEN rec.log ELSE 0
         /\ rec.leader = w => log_used_out[w] = rec.log
         /\ rec.leader # w =>
              log_used_out[w] = IF Route(req[w]) = "pipelined" THEN 0
                                ELSE log_used[w]

\* a follower returned OK with its batch in the WAL and no log number: the
\* callback of its leader failed, so that one batch was merged
C39_Witness ==
  \E w \in Writers :
    /\ ReturnedLogged(w) /\ Route(req[w]) = "default"
    /\ wal[RecordOf(w)].leader # w /\ cbfailed[wal[RecordOf(w)].leader]
    /\ wal[RecordOf(w)].contents = <<w>>
    /\ wal[RecordOf(w)].log # 0
    /\ log_used[w] = 0 /\ log_used_out[w] = 0

\* ------------------------------------------------------------ C36
\* w left an OK WAL-only phase of unordered mode with the memtable enabled
\* and its callback passed, and has not finished UnorderedWriteMemtable
ApplyPending(w) ==
  /\ Route(req[w]) = "unordered"
  /\ ~req[w].disable_memtable /\ ~cbfailed[w]
  /\ \/ pc[w] = "um_apply"
     \/ pc[w] = "wait" /\ wstate[w] = "COMPLETED" /\ Ok(wstatus[w])

\* C36: in unordered mode pending_memtable_writes_ never underflows and
\* equals the number of writers whose WAL-only phase exited with OK status,
\* with the memtable enabled and the callback passed, that have not finished
\* their memtable apply; a writer whose WAL phase failed, whose callback
\* failed or that disables the memtable never reaches the apply
C36_PendingCountsAppliers ==
  /\ pending_memtable_writes_ >= 0
  /\ pending_memtable_writes_ = Cardinality({w \in Writers : ApplyPending(w)})
  /\ \A w \in Writers :
       pc[w] = "um_apply" =>
         /\ ~req[w].disable_memtable /\ ~cbfailed[w]
         /\ Ok(wstatus[w])
         /\ gleader[w] \in Writers => Ok(io_failed[gleader[w]])

\* two writers of a group wait for their memtable apply while the third,
\* whose callback failed, has returned
C36_Witness ==
  /\ pending_memtable_writes_ = 2
  /\ Cardinality({w \in Writers : pc[w] = "um_apply"}) = 2
  /\ \E w \in Writers :
       cbfailed[w] /\ pc[w] = "done" /\ Route(req[w]) = "unordered"

\* ------------------------------------------------------------ C35
\* w is a leader between its PreprocessWrite, which marked the logs, and its
\* need_log_sync block
HoldsLogSync(w) ==
  /\ loc[w].need_log_sync
  /\ pc[w] \in {"wal", "prerelease", "apply", "papply", "finish", "pl_wal"}

\* C35: every log marked getting-synced by a leader's preprocess is unmarked
\* by that leader before it exits its group, after a WAL append failure, a
\* sync failure and a pre-release callback failure as well: logs are marked
\* only while such a leader is inside its group, no log is marked once the
\* leader has left its group or returned, and the next leader finds the front
\* log unmarked
C35_MarksClearedBeforeExit ==
  /\ \A w \in Writers : HoldsLogSync(w) => getting_synced = Range(logs_)
  /\ getting_synced # {} =>
       \E w \in Writers :
         HoldsLogSync(w) /\ group[w] # <<>> /\ group[w][1] = w
                         /\ w \notin Range(exited)
  /\ \A w \in Writers :
       (pc[w] \in {"enter", "pl_enter", "lreturn", "done"} \/ w \in Range(exited))
         => ~HoldsLogSync(w)
  /\ (\E w \in Writers : pc[w] \in {"enter", "pl_enter"}) => getting_synced = {}

\* a leader that asked for a sync left its group with a failed WAL write or a
\* failed pre-release callback, and no log is marked
C35_Witness ==
  \E w \in Writers :
    /\ req[w].sync /\ w \in Range(exited) /\ pc[w] \in {"lreturn", "done"}
    /\ ~Ok(io_failed[w]) \/ (req[w].pre = "fail" /\ prerel[w] # 0)
    /\ getting_synced = {}

\* ------------------------------------------------------------ C34
\* every call PreprocessWrite of w made so far returned OK
StepsOk(w) == \A i \in 1..Len(sw[w]) : Ok(sw[w][i].status)

\* w goes from its PreprocessWrite into its group on this step
LeavesPreprocess(w) ==
  Preprocesses(w) /\ pc'[w] \notin {pc[w], "rs_callback"}

\* C34: PreprocessWrite runs its checks in the order DB stopped, WAL-size
\* switch, write-buffer-full switch, trim history, scheduled flushes,
\* delay, log-sync marking; once a step returned a non-OK status no later
\* step runs, and on a non-OK return need_log_sync is false and the call has
\* marked no log as getting synced
C34_PreprocessOrder ==
  [][\A w \in Writers :
       /\ \A i, j \in 1..Len(sw'[w]) :
            i < j => /\ PreprocessStep(sw'[w][i].kind)
                          < PreprocessStep(sw'[w][j].kind)
                     /\ Ok(sw'[w][i].status)
       /\ sw'[w] # sw[w] =>
            /\ Preprocesses(w) /\ ~IsStopped /\ StepsOk(w)
            /\ delay[w] = "none" /\ getting_synced' = {}
       /\ (delay'[w] = "waiting" /\ delay[w] = "none") =>
            /\ Preprocesses(w) /\ ~IsStopped /\ StepsOk(w)
            /\ getting_synced' = {}
       /\ LeavesPreprocess(w) =>
            LET st == IF pc[w] = "wo_enter" THEN ret'[w] ELSE loc'[w].status
            IN /\ (IsStopped \/ ~StepsOk(w)) => ~Ok(st)
               /\ ~StepsOk(w) => delay[w] = "none"
               /\ ~Ok(st) => /\ ~loc'[w].need_log_sync
                             /\ getting_synced' = {}
               /\ (Ok(st) /\ pc[w] # "wo_enter") =>
                    /\ loc'[w].need_log_sync = req[w].sync
                    /\ getting_synced'
                         = IF req[w].sync THEN Range(logs_) ELSE {}]_vars

\* a leader that asked for a sync trimmed the history, failed in
\* ScheduleFlushes and entered its group with that error, need_log_sync
\* cleared and no log marked
C34_Witness ==
  \E w \in Writers :
    /\ pc[w] = "finish" /\ req[w].sync
    /\ Len(sw[w]) = 2 /\ sw[w][1].kind = "TrimMemtableHistory"
    /\ sw[w][2].kind = "ScheduleFlushes" /\ ~Ok(sw[w][2].status)
    /\ ~Ok(loc[w].status) /\ ~loc[w].need_log_sync
    /\ delay[w] = "none" /\ getting_synced = {}

\* ------------------------------------------------------------ C38
\* a record was appended to the active WAL since it became active
ActiveWalWritten == \E i \in 1..Len(wal) : wal[i].log = logfile_number_

\* the numbers of the WAL files the DB knows
WalNumbers ==
  Range(logs_) \cup {alive_log_files_[i].number : i \in 1..Len(alive_log_files_)}

\* leader w completes a switch call with status OK on this step
SwitchesOk(w) ==
  /\ Len(sw'[w]) = Len(sw[w]) + 1
  /\ sw'[w][Len(sw'[w])].kind \in
       {"SwitchWAL", "HandleWriteBufferFull", "ScheduleFlushes"}
  /\ sw'[w][Len(sw'[w])].cfds # {}
  /\ Ok(sw'[w][Len(sw'[w])].status)

\* what a successful switch by w does on this step when the active WAL
\* counts as written: a new WAL with a number above every known one becomes
\* the last alive and the active one, flagged empty; and what it does
\* otherwise: the active number and the alive list stay
NewWalIff(w, written) ==
  SwitchesOk(w) =>
    IF written
    THEN /\ \A n \in WalNumbers : logfile_number_' > n
         /\ Len(alive_log_files_') = Len(alive_log_files_) + 1
         /\ alive_log_files_'[Len(alive_log_files_')].number = logfile_number_'
         /\ \A i \in 1..Len(alive_log_files_) :
              alive_log_files_'[i].number = alive_log_files_[i].number
         /\ logs_' = Append(logs_, logfile_number_')
         /\ log_empty_'
    ELSE /\ logfile_number_' = logfile_number_
         /\ logs_' = logs_
         /\ Len(alive_log_files_') = Len(alive_log_files_)
         /\ \A i \in 1..Len(alive_log_files_) :
              alive_log_files_'[i].number = alive_log_files_[i].number

\* C38: a successful memtable switch creates and activates a new WAL if and
\* only if the current WAL has had a record appended since it became active;
\* then the new number is greater than every existing WAL number, it is the
\* last entry of the alive list and the single active WAL, and the empty-log
\* flag is set; otherwise the active WAL number and the alive list are
\* unchanged
C38_NewWalIffWritten ==
  [][\A w \in Writers : NewWalIff(w, ActiveWalWritten)]_vars

\* C38, amended: a successful memtable switch creates and activates a new
\* WAL if and only if a write to the current WAL was made since it became
\* active, whether or not the append succeeded: every appended record clears
\* the empty-log flag, and the flag is cleared with no record in the WAL only
\* after a failed WAL write
C38_NewWalIffWriteAttempted ==
  [][/\ \A w \in Writers : NewWalIff(w, ~log_empty_)
     /\ ActiveWalWritten' => ~log_empty_'
     /\ (~log_empty_' /\ ~ActiveWalWritten') =>
          \E x \in Writers : ~Ok(io_failed'[x])]_vars

\* a second WAL is active and empty after a switch, and an earlier or later
\* switch of the run found the active WAL empty and created none
C38_Witness ==
  /\ Len(alive_log_files_) = 2 /\ logfile_number_ = alive_log_files_[2].number
  /\ logfile_number_ > alive_log_files_[1].number
  /\ log_empty_
  /\ \E w \in Writers : \E i \in 1..Len(sw[w]) :
       /\ Ok(sw[w][i].status) /\ sw[w][i].cfds # {}
       /\ sw[w][i].from_log = logfile_number_
\* ---------------------------------------------------------------- C37
\* the step appends a WAL or memtable switch to the calls of leader w
StartsSwitch(w) ==
  /\ Len(sw'[w]) = Len(sw[w]) + 1
  /\ sw'[w][Len(sw'[w])].kind \in
       {"SwitchWAL", "HandleWriteBufferFull", "ScheduleFlushes"}

\* C37: in unordered mode a leader inside WaitForPendingWrites takes no other
\* step of its call, and no leader starts a WAL or memtable switch while
\* pending_memtable_writes_ is positive: the counter is still 0 when a leader
\* whose wait ended switches. Under fair scheduling every leader that entered
\* the wait leaves it: the notify_all of the writer that brought the counter
\* to 0 is never lost.
C37_ParkedLeaderProceeds ==
  /\ [](\A w \in Writers :
          (Preprocesses(w) /\ switch_wait[w] = "passed")
            => pending_memtable_writes_ = 0)
  /\ [][\A w \in Writers :
          /\ StartsSwitch(w) =>
               /\ ~Parked(w)
               /\ db.unordered_write => pending_memtable_writes_ = 0
          /\ Parked(w) =>
               /\ pc'[w] = pc[w] /\ sw'[w] = sw[w] /\ delay'[w] = delay[w]
               /\ pending_memtable_writes_' <= pending_memtable_writes_]_vars
  /\ \A w \in Writers : Parked(w) ~> (switch_wait[w] = "passed")

\* a leader blocked in switch_cv_ was notified by the writer that brought the
\* counter to 0 and returned
C37_Witness ==
  \E w \in Writers :
    /\ Preprocesses(w) /\ switch_wait[w] = "woken"
    /\ pending_memtable_writes_ = 0
    /\ \E x \in Writers \ {w} : pc[x] = "done" /\ mem[x] # 0

\* a leader whose wait ended has switched the memtable
C37_SwitchedAfterWait ==
  \E w \in Writers : switch_wait[w] = "passed" /\ sw[w] # <<>>
====
